---- MODULE Spec2Model ----
(***************************************************************************)
(* Authorization server (authn) of DFC: the user manager (user registry,   *)
(* token map, version counter), the proxy client that tracks the primary   *)
(* proxy, and the goroutine that sends the token list to the primary.      *)
(*                                                                         *)
(* Go maps are functions with a dynamic DOMAIN; a nil pointer or an absent *)
(* file is the empty sequence <<>> and a present one a one-element         *)
(* sequence; strings that the code builds (a signed token, a base64        *)
(* password) are tuples of the parts they are built from, "" is <<>>.      *)
(***************************************************************************)
EXTENDS Integers, Sequences, FiniteSets, TLC

\* ------------------------------------------------------------------ bounds
\* the clock stops at MaxTime
MaxTime == 3
\* operations that increment the version are disabled at MaxVersion
MaxVersion == 4
\* at most MaxTasks sendTokensToProxy goroutines are in flight
MaxTasks == 1
\* at most MaxThreads calls of the user manager run at the same time
MaxThreads == 2
\* a delivered TokenList holds at most MaxListLen tokens
MaxListLen == 2

\* ------------------------------------------------------- program constants
\* conf.Auth.ExpirePeriod, in clock ticks
ExpirePeriod == 2
\* time.RFC822 has a resolution of one minute: ticks per minute
MinuteTicks == 2

\* ------------------------------------------------------------------ inputs
UserIDs == {"", "u1", "u2"}
Passwords == {"", "p1", "p2"}
URLs == {"pA", "pB"}
TargetURLs == {"tA"}

VARIABLES
    Users,      \* userManager.Users: userID -> userInfo
    tokens,     \* userManager.tokens: userID -> tokenInfo
    version,    \* userManager.version
    proxy,      \* userManager.proxy: [Url, Smap]
    now,        \* time.Now()
    tasks,      \* where each running sendTokensToProxy goroutine is
    usersFile,  \* the file m.Path ("users.json")
    tokensFile, \* the file m.Path + ".tokens"
    last,       \* the call or goroutine step that ended in the latest step
    net,        \* what the cluster answers to the HTTP calls
    threads,    \* the calls that run concurrently: where each one is
    userMtx,    \* userManager.userMtx is locked
    tokenMtx    \* userManager.tokenMtx is locked

\* the state of the two mutexes and of the calls that take them
locks == <<threads, userMtx, tokenMtx>>

vars == <<Users, tokens, version, proxy, now, tasks, usersFile, tokensFile, last, net,
          locks>>

\* ----------------------------------------------------------------- threads
\* the callers, and the goroutines that they start
Callers == 1 .. MaxThreads
Goroutines == (MaxThreads + 1) .. (MaxThreads + MaxTasks)
\* a thread that runs nothing; holds is the set of mutexes
\* it has locked; info is the token or the token list it has built, err what
\* the call returned
NoThread == [op |-> "", pc |-> "", userID |-> "", pwd |-> "", token |-> "",
             info |-> <<>>, holds |-> {}, url |-> "", err |-> ""]
\* sequential calls: nothing runs concurrently and the mutexes are free
NoLocks ==
    /\ threads = [t \in Callers \cup Goroutines |-> NoThread]
    /\ userMtx = FALSE
    /\ tokenMtx = FALSE

\* ----------------------------------------------------------------- helpers
ErrNil == "nil"
EmptyMap == <<>>
MapPut(m, k, v) == [x \in (DOMAIN m) \cup {k} |-> IF x = k THEN v ELSE m[x]]
MapDelete(m, k) == [x \in (DOMAIN m) \ {k} |-> m[x]]

\* all orders in which a range loop may visit the keys of a Go map
RECURSIVE Orders(_)
Orders(S) ==
    IF S = {} THEN {<<>>}
    ELSE UNION {{<<x>> \o rest : rest \in Orders(S \ {x})} : x \in S}

\* base64.StdEncoding.EncodeToString / DecodeString
Base64Encode(s) == <<"b64", s>>
Base64Decode(e) == e[2]

\* t.Format(time.RFC822) keeps the minute and drops the rest;
\* time.Parse(time.RFC822, s) yields the start of that minute
FormatRFC822(t) == <<"rfc822", t \div MinuteTicks>>
ParseRFC822(s) == s[2] * MinuteTicks

\* jwt.NewWithClaims(...).SignedString(secret): the signed token string
SignedString(userID, issued, expires, creds) ==
    <<"jwt", userID, FormatRFC822(issued), FormatRFC822(expires), creds>>

\* a string that is no token signed with conf.Auth.Secret
GarbageToken == <<"garbage">>

\* Expires.Before(time.Now()) and Expires.After(time.Now())
ExpiresBefore(tinfo, t) == tinfo.Expires < t
ExpiresAfter(tinfo, t) == tinfo.Expires > t

\* -------------------------------------------------------------- the proxy
\* dfc.Smap as far as detectPrimary reads it: the primary (ProxySI.DirectURL)
\* and the DirectURLs of the proxies (Pmap) and of the targets (Tmap)
ClusterMaps ==
    {[ProxySI |-> p, Pmap |-> URLs, Tmap |-> TargetURLs] : p \in URLs}

\* what client.GetClusterMap(url) may answer: an error or a cluster map
Responses == {<<>>} \cup {<<s>> : s \in ClusterMaps}

\* one loop of detectPrimary that adopts the reported primary and keeps the
\* cluster map it had
RECURSIVE probeWalk_keepSmap(_, _, _)
probeWalk_keepSmap(p, order, resp) ==
    IF order = <<>> THEN [found |-> <<>>, probed |-> <<>>]
    ELSE LET url == Head(order)
             r == resp[url]
             rest == probeWalk_keepSmap(p, Tail(order), resp)
         IN IF url = p.Url THEN rest
            ELSE IF r # <<>> /\ r[1].ProxySI # p.Url
                 THEN [found |-> <<[Url |-> r[1].ProxySI, Smap |-> p.Smap]>>,
                       probed |-> <<url>>]
                 ELSE [rest EXCEPT !.probed = <<url>> \o rest.probed]

\* one loop of detectPrimary that gives up at the first member that does
\* not answer
RECURSIVE probeWalk_stopAtError(_, _, _)
probeWalk_stopAtError(p, order, resp) ==
    IF order = <<>> THEN [found |-> <<>>, probed |-> <<>>]
    ELSE LET url == Head(order)
             r == resp[url]
             rest == probeWalk_stopAtError(p, Tail(order), resp)
         IN IF url = p.Url THEN rest
            ELSE IF r = <<>> THEN [found |-> <<>>, probed |-> <<url>>]
            ELSE IF r[1].ProxySI # p.Url
                 THEN [found |-> <<[Url |-> r[1].ProxySI, Smap |-> r]>>,
                       probed |-> <<url>>]
                 ELSE [rest EXCEPT !.probed = <<url>> \o rest.probed]

\* one range loop of detectPrimary over the members in `order`: a member
\* whose DirectURL is p.Url is skipped; the others are asked with
\* client.GetClusterMap (probed) in turn until one answers with a primary
\* that is not p.Url (found: the proxy with that Url and that cluster map)
RECURSIVE probeWalk(_, _, _)
probeWalk(p, order, resp) ==
    IF order = <<>> THEN [found |-> <<>>, probed |-> <<>>]
    ELSE LET url == Head(order)
             r == resp[url]
             rest == probeWalk(p, Tail(order), resp)
         IN IF url = p.Url THEN rest
            ELSE IF r # <<>> /\ r[1].ProxySI # p.Url
                 THEN [found |-> <<[Url |-> r[1].ProxySI, Smap |-> r]>>,
                       probed |-> <<url>>]
                 ELSE [rest EXCEPT !.probed = <<url>> \o rest.probed]

\* one loop of detectPrimary over the members in `order`: the first member
\* that is not p.Url, answers, and reports another primary is adopted
probeLoop(p, order, resp) == probeWalk(p, order, resp).found

\* the members that detectPrimary asks, in the order it asks them
detectProbes(p, orderP, orderT, resp) ==
    IF p.Smap = <<>> \/ Cardinality(p.Smap[1].Pmap) + Cardinality(p.Smap[1].Tmap) = 0
    THEN <<>>
    ELSE LET fromP == probeWalk(p, orderP, resp)
         IN IF fromP.found # <<>> THEN fromP.probed
            ELSE fromP.probed \o probeWalk(p, orderT, resp).probed

\* proxy.detectPrimary: [err, proxy]; the proxies are probed before the targets
detectPrimary(p, orderP, orderT, resp) ==
    IF p.Smap = <<>> \/ Cardinality(p.Smap[1].Pmap) + Cardinality(p.Smap[1].Tmap) = 0
    THEN [err |-> "Cluster map is empty", proxy |-> p]
    ELSE LET fromP == probeLoop(p, orderP, resp)
             fromT == probeLoop(p, orderT, resp)
         IN IF fromP # <<>> THEN [err |-> ErrNil, proxy |-> fromP[1]]
            ELSE IF fromT # <<>> THEN [err |-> ErrNil, proxy |-> fromT[1]]
            ELSE [err |-> "Detecting primary proxy failed", proxy |-> p]

\* the cluster whose answers are not known: each call is answered anew
AnyNet ==
    [fixed |-> FALSE,
     ok |-> [u \in URLs |-> FALSE],
     resp |-> [m \in URLs \cup TargetURLs |-> <<>>]]

\* the clusters whose answers never change: ok[u] tells whether the POST of
\* the token list to u succeeds, resp[m] is what member m answers to
\* client.GetClusterMap
FixedNets ==
    [fixed : {TRUE},
     ok : [URLs -> BOOLEAN],
     resp : [URLs \cup TargetURLs -> Responses]]

\* m.client.Do(request): TRUE when there is no error and the status is < 400
PostOutcomes(url) ==
    IF net.fixed THEN {(url \in DOMAIN net.ok) /\ net.ok[url]} ELSE BOOLEAN

\* the answers of the members M to client.GetClusterMap
ClusterMapAnswers(M) ==
    IF net.fixed THEN {[m \in M |-> net.resp[m]]} ELSE [M -> Responses]

\* the defaultUrl that the tests pass to the proxy
DefaultUrl == ""

\* NewProxy: the default proxy (no cluster map), or the saved one after a
\* successful detectPrimary
NewProxy ==
    {[Url |-> DefaultUrl, Smap |-> <<>>]}
        \cup {[Url |-> s.ProxySI, Smap |-> <<s>>] : s \in ClusterMaps}

\* ------------------------------------------------------------ persistence
\* json of m.Users: passwordDecoded is not exported and is not written
UsersJSON(U) ==
    [u \in DOMAIN U |->
        [name |-> U[u].UserID, password |-> U[u].Password, creds |-> U[u].Creds]]

\* what dfc.LocalSave may return (TRUE: no error); the disk of this model
\* does not fail
SaveOutcomes == {TRUE}

\* m.saveUsers: dfc.LocalSave(m.Path, &m.Users); a failed save leaves the file
saveUsers(U, saveOk) ==
    [err |-> IF saveOk THEN ErrNil ELSE "UserManager: Failed to save user list",
     file |-> IF saveOk THEN <<UsersJSON(U)>> ELSE usersFile]

\* userManager.decryptToken: <<>> for an error, else <<tokenInfo>>
decryptToken(tokenStr) ==
    IF Len(tokenStr) # 5 \/ tokenStr[1] # "jwt" THEN <<>>
    ELSE <<[UserID |-> tokenStr[2],
            Issued |-> ParseRFC822(tokenStr[3]),
            Expires |-> ParseRFC822(tokenStr[4]),
            Token |-> tokenStr]>>

\* the loop of newUserManager over tokenList.Tokens: invalid tokens are skipped
RECURSIVE loadTokens(_, _)
loadTokens(list, acc) ==
    IF list = <<>> THEN acc
    ELSE LET t == decryptToken(Head(list))
         IN loadTokens(Tail(list),
                       IF t = <<>> THEN acc ELSE MapPut(acc, t[1].UserID, t[1]))

\* the users of the user file, with the passwords decoded
loadUsers(json) ==
    [u \in DOMAIN json |->
        [UserID |-> json[u].name,
         Password |-> json[u].password,
         passwordDecoded |-> Base64Decode(json[u].password),
         Creds |-> json[u].creds]]

\* ------------------------------------------------------ the call record
NoCall ==
    [op |-> "none", userID |-> "", pwd |-> "", token |-> <<>>,
     err |-> ErrNil, tok |-> <<>>, user |-> <<>>,
     Users |-> EmptyMap, tokens |-> EmptyMap, version |-> 0, ntasks |-> 0,
     task |-> <<>>, cred |-> <<>>]

\* a call that returns err and changes nothing
Reject(e) ==
    [err |-> e, tok |-> <<>>, user |-> <<>>, Users |-> Users, tokens |-> tokens,
     version |-> version, spawn |-> FALSE, usersFile |-> usersFile]

\* go m.sendTokensToProxy(): the goroutine is at its first line; url is its
\* local variable of that name, as far as the goroutine reads it again
NewTask == [pc |-> "start", url |-> ""]

\* no call has just returned: the next operation may start
Idle == last.op = "none"

\* the call returns: its effects are installed and the call is recorded
Commit(op, userID, pwd, token, out) ==
    /\ Idle
    /\ out.version <= MaxVersion
    /\ out.spawn => Len(tasks) < MaxTasks
    /\ Users' = out.Users
    /\ tokens' = out.tokens
    /\ version' = out.version
    /\ usersFile' = out.usersFile
    /\ tasks' = IF out.spawn THEN Append(tasks, NewTask) ELSE tasks
    /\ last' = [op |-> op, userID |-> userID, pwd |-> pwd, token |-> token,
                err |-> out.err, tok |-> out.tok, user |-> out.user,
                Users |-> Users, tokens |-> tokens, version |-> version,
                ntasks |-> Len(tasks), task |-> <<>>, cred |-> <<>>]
    /\ UNCHANGED <<proxy, now, tokensFile, net, locks>>

\* --------------------------------------------------------- userManager
\* addUser without the check for a registered userID
addUserBody_overwrite(userID, userPass, saveOk) ==
    IF userID = "" \/ userPass = "" THEN Reject("Invalid credentials")
    ELSE LET U2 == MapPut(Users, userID,
                        [UserID |-> userID,
                         passwordDecoded |-> userPass,
                         Password |-> Base64Encode(userPass),
                         Creds |-> EmptyMap])
             saved == saveUsers(U2, saveOk)
         IN [err |-> saved.err, tok |-> <<>>, user |-> <<>>,
             Users |-> U2,
             tokens |-> MapDelete(tokens, userID),
             version |-> version,
             spawn |-> FALSE,
             usersFile |-> saved.file]

\* addUser that leaves the token of the userID in the token map
addUserBody_keepToken(userID, userPass, saveOk) ==
    IF userID = "" \/ userPass = "" THEN Reject("Invalid credentials")
    ELSE IF userID \in DOMAIN Users THEN Reject("User already registered")
    ELSE LET U2 == MapPut(Users, userID,
                        [UserID |-> userID,
                         passwordDecoded |-> userPass,
                         Password |-> Base64Encode(userPass),
                         Creds |-> EmptyMap])
             saved == saveUsers(U2, saveOk)
         IN [err |-> saved.err, tok |-> <<>>, user |-> <<>>,
             Users |-> U2,
             tokens |-> tokens,
             version |-> version,
             spawn |-> FALSE,
             usersFile |-> saved.file]

\* userManager.addUser
addUserBody(userID, userPass, saveOk) ==
    IF userID = "" \/ userPass = "" THEN Reject("Invalid credentials")
    ELSE IF userID \in DOMAIN Users THEN Reject("User already registered")
    ELSE LET U2 == MapPut(Users, userID,
                        [UserID |-> userID,
                         passwordDecoded |-> userPass,
                         Password |-> Base64Encode(userPass),
                         Creds |-> EmptyMap])
             saved == saveUsers(U2, saveOk)
         IN [err |-> saved.err, tok |-> <<>>, user |-> <<>>,
             Users |-> U2,
             tokens |-> MapDelete(tokens, userID),
             version |-> version,
             spawn |-> FALSE,
             usersFile |-> saved.file]

addUser(userID, userPass) ==
    \E saveOk \in SaveOutcomes :
        Commit("addUser", userID, userPass, <<>>, addUserBody(userID, userPass, saveOk))

\* delUser without the check for an unknown userID
delUserBody_nocheck(userID, saveOk) ==
    LET U2 == MapDelete(Users, userID)
        ok == userID \in DOMAIN tokens
        saved == saveUsers(U2, saveOk)
    IN [err |-> saved.err, tok |-> <<>>, user |-> <<>>,
        Users |-> U2,
        tokens |-> MapDelete(tokens, userID),
        version |-> IF ok THEN version + 1 ELSE version,
        spawn |-> ok,
        usersFile |-> saved.file]

\* delUser that removes the token and leaves the user in the registry
delUserBody_keepUser(userID, saveOk) ==
    IF userID \notin DOMAIN Users THEN Reject("User does not exist")
    ELSE LET ok == userID \in DOMAIN tokens
             saved == saveUsers(Users, saveOk)
         IN [err |-> saved.err, tok |-> <<>>, user |-> <<>>,
             Users |-> Users,
             tokens |-> MapDelete(tokens, userID),
             version |-> IF ok THEN version + 1 ELSE version,
             spawn |-> ok,
             usersFile |-> saved.file]

\* delUser that undoes the deletion when the user file cannot be written
delUserBody_rollback(userID, saveOk) ==
    IF userID \notin DOMAIN Users THEN Reject("User does not exist")
    ELSE IF ~saveOk THEN Reject("UserManager: Failed to save user list")
    ELSE LET U2 == MapDelete(Users, userID)
             ok == userID \in DOMAIN tokens
             saved == saveUsers(U2, saveOk)
         IN [err |-> saved.err, tok |-> <<>>, user |-> <<>>,
             Users |-> U2,
             tokens |-> MapDelete(tokens, userID),
             version |-> IF ok THEN version + 1 ELSE version,
             spawn |-> ok,
             usersFile |-> saved.file]

\* userManager.delUser
delUserBody(userID, saveOk) ==
    IF userID \notin DOMAIN Users THEN Reject("User does not exist")
    ELSE LET U2 == MapDelete(Users, userID)
             ok == userID \in DOMAIN tokens
             saved == saveUsers(U2, saveOk)
         IN [err |-> saved.err, tok |-> <<>>, user |-> <<>>,
             Users |-> U2,
             tokens |-> MapDelete(tokens, userID),
             version |-> IF ok THEN version + 1 ELSE version,
             spawn |-> ok,
             usersFile |-> saved.file]

delUser(userID) ==
    \E saveOk \in SaveOutcomes :
        Commit("delUser", userID, "", <<>>, delUserBody(userID, saveOk))

\* issueToken that stores the token with expires = issued
issueTokenBody_noPeriod(userID, pwd) ==
    IF userID \notin DOMAIN Users THEN Reject("Invalid credentials")
    ELSE IF Users[userID].passwordDecoded # pwd
         THEN Reject("Invalid username or password")
    ELSE IF userID \in DOMAIN tokens /\ ExpiresAfter(tokens[userID], now)
         THEN [Reject(ErrNil) EXCEPT !.tok = tokens[userID].Token]
    ELSE LET issued == now
             expires == issued
             tokenString == SignedString(userID, issued, expires, Users[userID].Creds)
             token == [UserID |-> userID, Issued |-> issued,
                       Expires |-> expires, Token |-> tokenString]
         IN [err |-> ErrNil, tok |-> tokenString, user |-> <<>>,
             Users |-> Users,
             tokens |-> MapPut(tokens, userID, token),
             version |-> version + 1,
             spawn |-> TRUE,
             usersFile |-> usersFile]

\* issueToken that does not compare the password
issueTokenBody_noPassword(userID, pwd) ==
    IF userID \notin DOMAIN Users THEN Reject("Invalid credentials")
    ELSE IF userID \in DOMAIN tokens /\ ExpiresAfter(tokens[userID], now)
         THEN [Reject(ErrNil) EXCEPT !.tok = tokens[userID].Token]
    ELSE LET issued == now
             expires == issued + ExpirePeriod
             tokenString == SignedString(userID, issued, expires, Users[userID].Creds)
             token == [UserID |-> userID, Issued |-> issued,
                       Expires |-> expires, Token |-> tokenString]
         IN [err |-> ErrNil, tok |-> tokenString, user |-> <<>>,
             Users |-> Users,
             tokens |-> MapPut(tokens, userID, token),
             version |-> version + 1,
             spawn |-> TRUE,
             usersFile |-> usersFile]

\* issueToken that returns the stored token without looking at its expiry
issueTokenBody_noExpiry(userID, pwd) ==
    IF userID \notin DOMAIN Users THEN Reject("Invalid credentials")
    ELSE IF Users[userID].passwordDecoded # pwd
         THEN Reject("Invalid username or password")
    ELSE IF userID \in DOMAIN tokens
         THEN [Reject(ErrNil) EXCEPT !.tok = tokens[userID].Token]
    ELSE LET issued == now
             expires == issued + ExpirePeriod
             tokenString == SignedString(userID, issued, expires, Users[userID].Creds)
             token == [UserID |-> userID, Issued |-> issued,
                       Expires |-> expires, Token |-> tokenString]
         IN [err |-> ErrNil, tok |-> tokenString, user |-> <<>>,
             Users |-> Users,
             tokens |-> MapPut(tokens, userID, token),
             version |-> version + 1,
             spawn |-> TRUE,
             usersFile |-> usersFile]

\* issueToken that gives up when there is no primary to send the tokens to
issueTokenBody_needsPrimary(userID, pwd) ==
    IF userID \notin DOMAIN Users THEN Reject("Invalid credentials")
    ELSE IF Users[userID].passwordDecoded # pwd
         THEN Reject("Invalid username or password")
    ELSE IF proxy.Url = "" THEN Reject("Primary proxy is not defined")
    ELSE IF userID \in DOMAIN tokens /\ ExpiresAfter(tokens[userID], now)
         THEN [Reject(ErrNil) EXCEPT !.tok = tokens[userID].Token]
    ELSE LET issued == now
             expires == issued + ExpirePeriod
             tokenString == SignedString(userID, issued, expires, Users[userID].Creds)
             token == [UserID |-> userID, Issued |-> issued,
                       Expires |-> expires, Token |-> tokenString]
         IN [err |-> ErrNil, tok |-> tokenString, user |-> <<>>,
             Users |-> Users,
             tokens |-> MapPut(tokens, userID, token),
             version |-> version + 1,
             spawn |-> TRUE,
             usersFile |-> usersFile]

\* userManager.issueToken
issueTokenBody(userID, pwd) ==
    IF userID \notin DOMAIN Users THEN Reject("Invalid credentials")
    ELSE IF Users[userID].passwordDecoded # pwd
         THEN Reject("Invalid username or password")
    ELSE IF userID \in DOMAIN tokens /\ ExpiresAfter(tokens[userID], now)
         THEN [Reject(ErrNil) EXCEPT !.tok = tokens[userID].Token]
    ELSE LET issued == now
             expires == issued + ExpirePeriod
             tokenString == SignedString(userID, issued, expires, Users[userID].Creds)
             token == [UserID |-> userID, Issued |-> issued,
                       Expires |-> expires, Token |-> tokenString]
         IN [err |-> ErrNil, tok |-> tokenString, user |-> <<>>,
             Users |-> Users,
             tokens |-> MapPut(tokens, userID, token),
             version |-> version + 1,
             spawn |-> TRUE,
             usersFile |-> usersFile]

issueToken(userID, pwd) ==
    Commit("issueToken", userID, pwd, <<>>, issueTokenBody(userID, pwd))

\* the userIDs whose stored token has the signed value `token`
Matching(token) == {id \in DOMAIN tokens : tokens[id].Token = token}

\* revokeToken that counts the version down
revokeTokenBody_decrement(token, id) ==
    IF id \notin Matching(token) THEN Reject(ErrNil)
    ELSE [Reject(ErrNil) EXCEPT !.tokens = MapDelete(tokens, id),
                                !.version = version - 1,
                                !.spawn = TRUE]

\* revokeToken that empties the token map when it finds the token
revokeTokenBody_all(token, id) ==
    IF id \notin Matching(token) THEN Reject(ErrNil)
    ELSE [Reject(ErrNil) EXCEPT !.tokens = EmptyMap,
                                !.version = version + 1,
                                !.spawn = TRUE]

\* revokeToken that counts a call that found no token
revokeTokenBody_always(token, id) ==
    IF id \notin Matching(token)
    THEN [Reject(ErrNil) EXCEPT !.version = version + 1, !.spawn = TRUE]
    ELSE [Reject(ErrNil) EXCEPT !.tokens = MapDelete(tokens, id),
                                !.version = version + 1,
                                !.spawn = TRUE]

\* userManager.revokeToken: the range loop stops at the first match
revokeTokenBody(token, id) ==
    IF id \notin Matching(token) THEN Reject(ErrNil)
    ELSE [Reject(ErrNil) EXCEPT !.tokens = MapDelete(tokens, id),
                                !.version = version + 1,
                                !.spawn = TRUE]

revokeToken(token) ==
    IF Matching(token) = {}
    THEN Commit("revokeToken", "", "", token, revokeTokenBody(token, ""))
    ELSE \E id \in Matching(token) :
            Commit("revokeToken", "", "", token, revokeTokenBody(token, id))

\* userByToken that leaves the expired token in the map
userByTokenBody_keepExpired(token, id) ==
    IF id \notin Matching(token) THEN Reject("Token not found")
    ELSE IF ExpiresBefore(tokens[id], now) THEN Reject("Token expired")
    ELSE IF id \notin DOMAIN Users THEN Reject("Invalid token")
    ELSE [Reject(ErrNil) EXCEPT !.user = <<Users[id]>>]

\* userByToken that does not look the owner up in the registry
userByTokenBody_noRegistry(token, id) ==
    IF id \notin Matching(token) THEN Reject("Token not found")
    ELSE IF ExpiresBefore(tokens[id], now)
         THEN [Reject("Token expired") EXCEPT !.tokens = MapDelete(tokens, id)]
    ELSE [Reject(ErrNil) EXCEPT
            !.user = IF id \in DOMAIN Users THEN <<Users[id]>> ELSE <<>>]

\* userManager.userByToken: the range loop returns at the first match
userByTokenBody(token, id) ==
    IF id \notin Matching(token) THEN Reject("Token not found")
    ELSE IF ExpiresBefore(tokens[id], now)
         THEN [Reject("Token expired") EXCEPT !.tokens = MapDelete(tokens, id)]
    ELSE IF id \notin DOMAIN Users THEN Reject("Invalid token")
    ELSE [Reject(ErrNil) EXCEPT !.user = <<Users[id]>>]

userByToken(token) ==
    IF Matching(token) = {}
    THEN Commit("userByToken", "", "", token, userByTokenBody(token, ""))
    ELSE \E id \in Matching(token) :
            Commit("userByToken", "", "", token, userByTokenBody(token, id))

\* -------------------------------------------------- sendTokensToProxy
RemoveAt(seq, i) == SubSeq(seq, 1, i - 1) \o SubSeq(seq, i + 1, Len(seq))

\* a sweep that keeps the expired tokens too
sweepKeep_all(tm, t) == DOMAIN tm

\* the tokens that the sweep of sendTokensToProxy keeps
sweepKeep(tm, t) == {id \in DOMAIN tm : ~ExpiresBefore(tm[id], t)}

\* the token list that a sweep at time t hands on: the tokens that are not
\* expired, in the order `order` of the map's range loop, and the version
tokenListOf(tm, order, v) ==
    [Tokens |-> [k \in 1..Len(order) |-> tm[order[k]].Token], Version |-> v]

\* a step of a goroutine that nothing has been filled in for: url is
\* m.proxy.Url when the step began, failed the URL of the POST that failed
\* before a detectPrimary, pc where the goroutine is afterwards ("end" when
\* it returned), list the token list built, delivered the outcome of the
\* POST, detect the result of detectPrimary, saved what saveSmap wrote
NoStep ==
    [url |-> "", failed |-> "", pc |-> "", list |-> <<>>,
     delivered |-> FALSE, detect |-> <<>>, saved |-> <<>>,
     before |-> <<>>, resp |-> <<>>, probed |-> <<>>]

\* the record of a step of a goroutine
StepRecord(op, step) ==
    [NoCall EXCEPT !.op = op, !.tokens = tokens, !.version = version,
                   !.ntasks = Len(tasks), !.task = <<step>>]

\* the goroutine that does not look at m.proxy.Url before the sweep
sweepTokens_noUrlCheck(i) ==
    /\ Idle
    /\ tasks[i].pc = "start"
    /\ LET keep == sweepKeep(tokens, now)
       IN /\ tokens' = [id \in keep |-> tokens[id]]
          /\ tasks' = [tasks EXCEPT ![i] = [pc |-> "send", url |-> ""]]
          /\ \E order \in Orders(keep), saveOk \in SaveOutcomes :
                LET tokenList == tokenListOf(tokens, order, version)
                IN /\ tokensFile' = IF saveOk THEN <<tokenList>> ELSE tokensFile
                   /\ last' = StepRecord("sweepTokens",
                                [NoStep EXCEPT !.url = proxy.Url, !.pc = "send",
                                               !.list = <<tokenList>>])
    /\ UNCHANGED <<Users, version, proxy, now, usersFile, net, locks>>

\* the goroutine starts: it ends at once when no primary is defined; else,
\* under tokenMtx, it deletes the expired tokens and copies the remaining
\* ones and the version, and then writes the copy to the token file
\* (dfc.LocalSave(m.Path+".tokens", tokenList): a failure is only logged)
sweepTokens(i) ==
    /\ Idle
    /\ tasks[i].pc = "start"
    /\ IF proxy.Url = ""
       THEN /\ tasks' = RemoveAt(tasks, i)
            /\ last' = StepRecord("sweepTokens", [NoStep EXCEPT !.pc = "end"])
            /\ UNCHANGED <<tokens, tokensFile>>
       ELSE LET keep == sweepKeep(tokens, now)
            IN /\ tokens' = [id \in keep |-> tokens[id]]
               /\ tasks' = [tasks EXCEPT ![i] = [pc |-> "send", url |-> ""]]
               /\ \E order \in Orders(keep), saveOk \in SaveOutcomes :
                    LET tokenList == tokenListOf(tokens, order, version)
                    IN /\ tokensFile' = IF saveOk THEN <<tokenList>> ELSE tokensFile
                       /\ last' = StepRecord("sweepTokens",
                                    [NoStep EXCEPT !.url = proxy.Url, !.pc = "send",
                                                   !.list = <<tokenList>>])
    /\ UNCHANGED <<Users, version, proxy, now, usersFile, net, locks>>

\* the top of the for loop: url is built from m.proxy.Url and the token list
\* is POSTed to it; on success the goroutine ends, else it goes on to
\* detectPrimary
deliverTokens(i) ==
    /\ Idle
    /\ tasks[i].pc = "send"
    /\ \E delivered \in PostOutcomes(proxy.Url) :
        /\ tasks' = IF delivered
                    THEN RemoveAt(tasks, i)
                    ELSE [tasks EXCEPT ![i] = [pc |-> "detect", url |-> proxy.Url]]
        /\ last' = StepRecord("deliverTokens",
                        [NoStep EXCEPT !.url = proxy.Url,
                                       !.pc = IF delivered THEN "end" ELSE "detect",
                                       !.delivered = delivered])
    /\ UNCHANGED <<Users, tokens, version, proxy, now, usersFile, tokensFile, net, locks>>

\* after a failed POST: m.proxy.detectPrimary() on the proxy as it is now;
\* an error ends the goroutine, else m.proxy.saveSmap() and the next turn
redetectPrimary(i) ==
    /\ Idle
    /\ tasks[i].pc = "detect"
    /\ LET P == IF proxy.Smap = <<>> THEN {} ELSE proxy.Smap[1].Pmap
           T == IF proxy.Smap = <<>> THEN {} ELSE proxy.Smap[1].Tmap
       IN \E orderP \in Orders(P), orderT \in Orders(T),
             resp \in ClusterMapAnswers(P \cup T) :
            LET d == detectPrimary(proxy, orderP, orderT, resp)
            IN /\ proxy' = d.proxy
               /\ tasks' = IF d.err # ErrNil
                           THEN RemoveAt(tasks, i)
                           ELSE [tasks EXCEPT ![i] = [pc |-> "send", url |-> ""]]
               /\ last' = StepRecord("redetectPrimary",
                            [NoStep EXCEPT
                                !.url = proxy.Url,
                                !.failed = tasks[i].url,
                                !.pc = IF d.err # ErrNil THEN "end" ELSE "send",
                                !.detect = <<d>>,
                                !.saved = IF d.err # ErrNil THEN <<>> ELSE <<d.proxy>>])
    /\ UNCHANGED <<Users, tokens, version, now, usersFile, tokensFile, net, locks>>

\* ------------------------------------------------------------- the rest
\* time passes
Tick ==
    /\ Idle
    /\ now < MaxTime
    /\ now' = now + 1
    /\ UNCHANGED <<Users, tokens, version, proxy, tasks, usersFile, tokensFile, last, net, locks>>

\* the caller has seen the result of the call
Return ==
    /\ ~Idle
    /\ last' = NoCall
    /\ UNCHANGED <<Users, tokens, version, proxy, now, tasks, usersFile, tokensFile, net, locks>>

\* the process is restarted: newUserManager reads the files that are there
newUserManager ==
    /\ Idle
    /\ IF usersFile = <<>>
       THEN /\ Users' = EmptyMap
            /\ tokens' = EmptyMap
            /\ version' = 1
       ELSE /\ Users' = loadUsers(usersFile[1])
            /\ IF tokensFile = <<>>
               THEN /\ tokens' = EmptyMap
                    /\ version' = 1
               ELSE /\ tokens' = loadTokens(tokensFile[1].Tokens, EmptyMap)
                    /\ version' = tokensFile[1].Version
    /\ proxy' \in NewProxy
    /\ tasks' = <<>>
    /\ last' = [NoCall EXCEPT !.op = "newUserManager", !.Users = Users,
                               !.tokens = tokens, !.version = version,
                               !.ntasks = Len(tasks)]
    /\ UNCHANGED <<now, usersFile, tokensFile, net, locks>>

\* all signed values that issueToken can produce, and one that it cannot
TokenStrings ==
    {SignedString(u, t, t + ExpirePeriod, EmptyMap) :
        u \in UserIDs \ {""}, t \in 0..MaxTime} \cup {GarbageToken}

Init ==
    /\ Users = EmptyMap
    /\ tokens = EmptyMap
    /\ version = 1
    /\ proxy \in NewProxy
    /\ now = 0
    /\ tasks = <<>>
    /\ usersFile = <<>>
    /\ tokensFile = <<>>
    /\ last = NoCall
    /\ net = AnyNet
    /\ NoLocks

Next ==
    \/ \E userID \in UserIDs, userPass \in Passwords : addUser(userID, userPass)
    \/ \E userID \in UserIDs : delUser(userID)
    \/ \E userID \in UserIDs, pwd \in Passwords : issueToken(userID, pwd)
    \/ \E token \in TokenStrings : revokeToken(token)
    \/ \E token \in TokenStrings : userByToken(token)
    \/ \E i \in DOMAIN tasks : sweepTokens(i)
    \/ \E i \in DOMAIN tasks : deliverTokens(i)
    \/ \E i \in DOMAIN tasks : redetectPrimary(i)
    \/ Tick
    \/ Return
    \/ newUserManager

Spec == Init /\ [][Next]_vars

\* ------------------------------------------- the goroutines on their own
\* two registered users that were each issued a token at time 0
ReplUsers ==
    [u \in UserIDs \ {""} |->
        [UserID |-> u, passwordDecoded |-> "p1",
         Password |-> Base64Encode("p1"), Creds |-> EmptyMap]]

ReplTokens ==
    [u \in UserIDs \ {""} |->
        [UserID |-> u, Issued |-> 0, Expires |-> ExpirePeriod,
         Token |-> SignedString(u, 0, ExpirePeriod, EmptyMap)]]

\* the manager after addUser and issueToken for both users, with the
\* goroutine of the second issueToken, or those of both, about to run, and
\* a cluster whose answers are fixed or not
InitRepl ==
    /\ Users = ReplUsers
    /\ tokens = ReplTokens
    /\ version = 1 + Cardinality(DOMAIN ReplTokens)
    /\ proxy \in NewProxy
    /\ now = 0
    /\ tasks \in {<<NewTask>>, <<NewTask, NewTask>>}
    /\ usersFile = <<UsersJSON(ReplUsers)>>
    /\ tokensFile = <<>>
    /\ last = NoCall
    /\ net \in FixedNets \cup {AnyNet}
    /\ NoLocks

\* a step of some goroutine
TaskNext ==
    \/ \E i \in DOMAIN tasks : sweepTokens(i)
    \/ \E i \in DOMAIN tasks : deliverTokens(i)
    \/ \E i \in DOMAIN tasks : redetectPrimary(i)

NextRepl ==
    \/ TaskNext
    \/ Tick
    \/ Return

\* the Go scheduler runs a goroutine that can run, and every network call
\* returns
SpecRepl ==
    InitRepl /\ [][NextRepl]_vars /\ WF_vars(TaskNext) /\ WF_vars(Return)

\* ------------------------------------------- a user file that may fail
\* what dfc.LocalSave(m.Path, &m.Users) may return when the disk can fail
DiskOutcomes == BOOLEAN

addUserDisk(userID, userPass) ==
    \E saveOk \in DiskOutcomes :
        Commit("addUser", userID, userPass, <<>>, addUserBody(userID, userPass, saveOk))

delUserDisk(userID) ==
    \E saveOk \in DiskOutcomes :
        Commit("delUser", userID, "", <<>>, delUserBody(userID, saveOk))

NextDisk ==
    \/ \E userID \in UserIDs, userPass \in Passwords : addUserDisk(userID, userPass)
    \/ \E userID \in UserIDs : delUserDisk(userID)
    \/ \E userID \in UserIDs, pwd \in Passwords : issueToken(userID, pwd)
    \/ TaskNext
    \/ Return

SpecDisk == Init /\ [][NextDisk]_vars

\* ------------------------------------------------------- the credentials
\* dfc.ProviderAmazon, dfc.ProviderGoogle, dfc.ProviderDfc
Providers == {"aws", "gcp", "dfc"}
\* the providers and values that the tests pass
ProviderInputs == {"aws", "gcp", "Provider"}
CredInputs == {"aws-01", "aws-02"}

\* the result of a call on the credentials: changed, the error, the registry
\* and the version
CredResult(changed, e, U, v) ==
    [changed |-> changed, err |-> e, Users |-> U, version |-> v]

\* updateCredentials that drops the other credentials of the user
updateCredentialsBody_dropOthers(userID, provider, value, redundantNoop) ==
    IF userID \notin DOMAIN Users
    THEN CredResult(FALSE, "User does not exist", Users, version)
    ELSE IF provider \notin Providers
    THEN CredResult(FALSE, "Invalid cloud provider", Users, version)
    ELSE CredResult(TRUE, ErrNil,
            [Users EXCEPT ![userID].Creds = MapPut(EmptyMap, provider, value)],
            version + 1)

\* updateCredentials: unknown user and unsupported provider are errors; a
\* value that is installed or overwrites another one is a change and counts
\* the version up; setting the value that is there already is left open
\* (redundantNoop: it is a no-op, else it is a change like any other)
updateCredentialsBody(userID, provider, value, redundantNoop) ==
    IF userID \notin DOMAIN Users
    THEN CredResult(FALSE, "User does not exist", Users, version)
    ELSE IF provider \notin Providers
    THEN CredResult(FALSE, "Invalid cloud provider", Users, version)
    ELSE IF /\ redundantNoop
            /\ provider \in DOMAIN Users[userID].Creds
            /\ Users[userID].Creds[provider] = value
    THEN CredResult(FALSE, ErrNil, Users, version)
    ELSE CredResult(TRUE, ErrNil,
            [Users EXCEPT ![userID].Creds = MapPut(Users[userID].Creds, provider, value)],
            version + 1)

\* deleteCredentials that counts a deletion of a credential that is not there
deleteCredentialsBody_alwaysChanged(userID, provider) ==
    IF userID \notin DOMAIN Users
    THEN CredResult(FALSE, "User does not exist", Users, version)
    ELSE IF provider \notin Providers
    THEN CredResult(FALSE, "Invalid cloud provider", Users, version)
    ELSE CredResult(TRUE, ErrNil,
            [Users EXCEPT ![userID].Creds = MapDelete(Users[userID].Creds, provider)],
            version + 1)

\* deleteCredentials: unknown user and unsupported provider are errors; a
\* credential that is there is removed, which is a change and counts the
\* version up; one that is not there is no change and no error
deleteCredentialsBody(userID, provider) ==
    IF userID \notin DOMAIN Users
    THEN CredResult(FALSE, "User does not exist", Users, version)
    ELSE IF provider \notin Providers
    THEN CredResult(FALSE, "Invalid cloud provider", Users, version)
    ELSE IF provider \notin DOMAIN Users[userID].Creds
    THEN CredResult(FALSE, ErrNil, Users, version)
    ELSE CredResult(TRUE, ErrNil,
            [Users EXCEPT ![userID].Creds = MapDelete(Users[userID].Creds, provider)],
            version + 1)

\* the call returns: a change is installed and persisted, the call recorded
CommitCreds(op, userID, provider, value, out) ==
    /\ Idle
    /\ out.version <= MaxVersion
    /\ Users' = out.Users
    /\ version' = out.version
    /\ usersFile' = IF out.changed THEN <<UsersJSON(out.Users)>> ELSE usersFile
    /\ last' = [NoCall EXCEPT !.op = op, !.userID = userID, !.err = out.err,
                              !.Users = Users, !.tokens = tokens,
                              !.version = version, !.ntasks = Len(tasks),
                              !.cred = <<[provider |-> provider, value |-> value,
                                          changed |-> out.changed]>>]
    /\ UNCHANGED <<tokens, proxy, now, tasks, tokensFile, net, locks>>

updateCredentials(userID, provider, value) ==
    \E redundantNoop \in BOOLEAN :
        CommitCreds("updateCredentials", userID, provider, value,
                    updateCredentialsBody(userID, provider, value, redundantNoop))

deleteCredentials(userID, provider) ==
    CommitCreds("deleteCredentials", userID, provider, "",
                deleteCredentialsBody(userID, provider))

NextCreds ==
    \/ \E userID \in UserIDs, userPass \in Passwords : addUser(userID, userPass)
    \/ \E userID \in UserIDs, provider \in ProviderInputs, value \in CredInputs :
            updateCredentials(userID, provider, value)
    \/ \E userID \in UserIDs, provider \in ProviderInputs :
            deleteCredentials(userID, provider)
    \/ Return

SpecCreds == Init /\ [][NextCreds]_vars

\* ------------------------------------------------ the calls, lock by lock
\* the arguments of the concurrent calls
ConcUserIDs == {"u1"}
ConcPasswords == {"p1"}
ConcOps == {"addUser", "delUser", "issueToken", "revokeToken", "userByToken"}
\* the signed values a caller may pass: those of the tokens in the map, and
\* one that is in no map
ConcTokens == {tokens[id].Token : id \in DOMAIN tokens} \cup {GarbageToken}

\* the callers that are in a call
Running == {t \in Callers : threads[t].op # ""}

\* a caller enters a call: addUser, delUser and issueToken begin with
\* m.userMtx.Lock(), revokeToken and userByToken with m.tokenMtx.Lock().
\* A call counts the version up at most once; it begins only when the
\* version stays within MaxVersion whatever the calls that run do.
callBeginOf(t, ops) ==
    /\ t \in Callers
    /\ threads[t].op = ""
    /\ \E op \in ops, userID \in ConcUserIDs, pwd \in ConcPasswords,
          token \in ConcTokens :
        /\ version + Cardinality(Running) < MaxVersion
        /\ threads' = [threads EXCEPT ![t] =
            IF op \in {"revokeToken", "userByToken"}
            THEN [NoThread EXCEPT !.op = op, !.pc = "tokenLock", !.token = token]
            ELSE [NoThread EXCEPT !.op = op, !.pc = "userLock",
                                  !.userID = userID, !.pwd = pwd]]
    /\ UNCHANGED <<Users, tokens, version, proxy, now, tasks, usersFile, tokensFile,
                   last, net, userMtx, tokenMtx>>

callBegin(t) == callBeginOf(t, ConcOps)

\* the call has returned err: the thread keeps the result until the caller
\* has seen it
Ended(th, err) == [th EXCEPT !.pc = "done", !.err = err]

\* the caller has seen the result
callEnd(t) ==
    /\ threads[t].pc = "done"
    /\ threads' = [threads EXCEPT ![t] = NoThread]
    /\ UNCHANGED <<Users, tokens, version, proxy, now, tasks, usersFile, tokensFile,
                   last, net, userMtx, tokenMtx>>

\* m.userMtx.Lock(): the thread waits until the mutex is free
userMtxLock(t) ==
    /\ threads[t].pc \in {"userLock", "saveLock"}
    /\ ~userMtx
    /\ userMtx' = TRUE
    /\ threads' = [threads EXCEPT
            ![t].pc = IF @ = "userLock" THEN "userBody" ELSE "saveWrite",
            ![t].holds = @ \cup {"userMtx"}]
    /\ UNCHANGED <<Users, tokens, version, proxy, now, tasks, usersFile, tokensFile,
                   last, net, tokenMtx>>

\* m.tokenMtx.Lock()
tokenMtxLock(t) ==
    /\ threads[t].pc \in {"tokenLock", "storeLock"}
    /\ ~tokenMtx
    /\ tokenMtx' = TRUE
    /\ threads' = [threads EXCEPT
            ![t].pc = IF @ = "tokenLock" THEN "tokenBody" ELSE "storeBody",
            ![t].holds = @ \cup {"tokenMtx"}]
    /\ UNCHANGED <<Users, tokens, version, proxy, now, tasks, usersFile, tokensFile,
                   last, net, userMtx>>

\* saveUsers after m.userMtx.Lock(): dfc.LocalSave(m.Path, &m.Users) while
\* the mutex is held
saveUsersWrite(t) ==
    /\ threads[t].pc = "saveWrite"
    /\ usersFile' = <<UsersJSON(Users)>>
    /\ threads' = [threads EXCEPT ![t].pc = "saveUnlock"]
    /\ UNCHANGED <<Users, tokens, version, proxy, now, tasks, tokensFile,
                   last, net, userMtx, tokenMtx>>

\* the deferred m.userMtx.Unlock() of saveUsers, and the return of the call
saveUsersUnlock(t) ==
    /\ threads[t].pc = "saveUnlock"
    /\ userMtx' = FALSE
    /\ threads' = [threads EXCEPT
            ![t] = Ended([threads[t] EXCEPT !.holds = @ \ {"userMtx"}], ErrNil)]
    /\ UNCHANGED <<Users, tokens, version, proxy, now, tasks, usersFile, tokensFile,
                   last, net, tokenMtx>>

\* `go m.sendTokensToProxy()`: a goroutine that runs nothing takes it up
goSendTokens(t) ==
    /\ threads[t].pc = "go"
    /\ \E g \in Goroutines :
        /\ threads[g].op = ""
        /\ threads' = [threads EXCEPT
                ![g] = [NoThread EXCEPT !.op = "sendTokensToProxy", !.pc = "begin"],
                ![t] = IF threads[t].op = "delUser"
                       THEN [threads[t] EXCEPT !.pc = "saveLock"]
                       ELSE Ended(threads[t], ErrNil)]
    /\ UNCHANGED <<Users, tokens, version, proxy, now, tasks, usersFile, tokensFile,
                   last, net, userMtx, tokenMtx>>

\* addUser between its Lock and Unlock calls: the registry under userMtx,
\* then the token under tokenMtx; saveUsers follows
addUserLocked(t) ==
    /\ threads[t].op = "addUser"
    /\ LET th == threads[t]
       IN \/ /\ th.pc = "userBody"
             /\ userMtx' = FALSE
             /\ IF th.userID \in DOMAIN Users
                THEN /\ Users' = Users
                     /\ threads' = [threads EXCEPT ![t] =
                            Ended([th EXCEPT !.holds = @ \ {"userMtx"}],
                                  "User already registered")]
                ELSE /\ Users' = MapPut(Users, th.userID,
                                    [UserID |-> th.userID,
                                     passwordDecoded |-> th.pwd,
                                     Password |-> Base64Encode(th.pwd),
                                     Creds |-> EmptyMap])
                     /\ threads' = [threads EXCEPT ![t].pc = "tokenLock",
                                                   ![t].holds = @ \ {"userMtx"}]
             /\ UNCHANGED <<tokens, tokenMtx>>
          \/ /\ th.pc = "tokenBody"
             /\ tokens' = MapDelete(tokens, th.userID)
             /\ tokenMtx' = FALSE
             /\ threads' = [threads EXCEPT ![t].pc = "saveLock",
                                           ![t].holds = @ \ {"tokenMtx"}]
             /\ UNCHANGED <<Users, userMtx>>
    /\ UNCHANGED <<version, proxy, now, tasks, usersFile, tokensFile, last, net>>

\* delUser that locks tokenMtx before it unlocks userMtx
delUserLocked_nested(t) ==
    /\ threads[t].op = "delUser"
    /\ LET th == threads[t]
       IN \/ /\ th.pc = "userBody"
             /\ IF th.userID \notin DOMAIN Users
                THEN /\ Users' = Users
                     /\ userMtx' = FALSE
                     /\ threads' = [threads EXCEPT ![t] =
                            Ended([th EXCEPT !.holds = @ \ {"userMtx"}],
                                  "User does not exist")]
                ELSE /\ Users' = MapDelete(Users, th.userID)
                     /\ userMtx' = userMtx
                     /\ threads' = [threads EXCEPT ![t].pc = "tokenLock"]
             /\ UNCHANGED <<tokens, version, tokenMtx>>
          \/ /\ th.pc = "tokenBody"
             /\ LET ok == th.userID \in DOMAIN tokens
                IN /\ tokens' = MapDelete(tokens, th.userID)
                   /\ version' = IF ok THEN version + 1 ELSE version
                   /\ threads' = [threads EXCEPT
                            ![t].pc = IF ok THEN "go" ELSE "saveLock",
                            ![t].holds = {}]
             /\ tokenMtx' = FALSE
             /\ userMtx' = FALSE
             /\ UNCHANGED Users
    /\ UNCHANGED <<proxy, now, tasks, usersFile, tokensFile, last, net>>

\* delUser between its Lock and Unlock calls
delUserLocked(t) ==
    /\ threads[t].op = "delUser"
    /\ LET th == threads[t]
       IN \/ /\ th.pc = "userBody"
             /\ userMtx' = FALSE
             /\ IF th.userID \notin DOMAIN Users
                THEN /\ Users' = Users
                     /\ threads' = [threads EXCEPT ![t] =
                            Ended([th EXCEPT !.holds = @ \ {"userMtx"}],
                                  "User does not exist")]
                ELSE /\ Users' = MapDelete(Users, th.userID)
                     /\ threads' = [threads EXCEPT ![t].pc = "tokenLock",
                                                   ![t].holds = @ \ {"userMtx"}]
             /\ UNCHANGED <<tokens, version, tokenMtx>>
          \/ /\ th.pc = "tokenBody"
             /\ LET ok == th.userID \in DOMAIN tokens
                IN /\ tokens' = MapDelete(tokens, th.userID)
                   /\ version' = IF ok THEN version + 1 ELSE version
                   /\ threads' = [threads EXCEPT
                            ![t].pc = IF ok THEN "go" ELSE "saveLock",
                            ![t].holds = @ \ {"tokenMtx"}]
             /\ tokenMtx' = FALSE
             /\ UNCHANGED <<Users, userMtx>>
    /\ UNCHANGED <<proxy, now, tasks, usersFile, tokensFile, last, net>>

\* issueToken that counts the version up before it locks tokenMtx
issueTokenLocked_countUnlocked(t) ==
    /\ threads[t].op = "issueToken"
    /\ LET th == threads[t]
       IN \/ /\ th.pc = "userBody"
             /\ userMtx' = FALSE
             /\ threads' = [threads EXCEPT ![t] =
                    LET free == [th EXCEPT !.holds = @ \ {"userMtx"}]
                    IN IF th.userID \notin DOMAIN Users
                       THEN Ended(free, "Invalid credentials")
                       ELSE IF Users[th.userID].passwordDecoded # th.pwd
                       THEN Ended(free, "Invalid username or password")
                       ELSE [free EXCEPT !.pc = "tokenLock",
                                         !.info = <<Users[th.userID].Creds>>]]
             /\ UNCHANGED <<tokens, version, tokenMtx>>
          \/ /\ th.pc = "tokenBody"
             /\ tokenMtx' = FALSE
             /\ LET free == [th EXCEPT !.holds = @ \ {"tokenMtx"}]
                IN IF th.userID \in DOMAIN tokens /\ ExpiresAfter(tokens[th.userID], now)
                   THEN /\ tokens' = tokens
                        /\ threads' = [threads EXCEPT ![t] =
                              Ended([free EXCEPT !.token = tokens[th.userID].Token,
                                                 !.info = <<tokens[th.userID]>>],
                                    ErrNil)]
                   ELSE /\ tokens' = MapDelete(tokens, th.userID)
                        /\ threads' = [threads EXCEPT ![t] = [free EXCEPT !.pc = "mint"]]
             /\ UNCHANGED <<version, userMtx>>
          \/ /\ th.pc = "mint"
             /\ LET issued == now
                    expires == issued + ExpirePeriod
                    tokenString == SignedString(th.userID, issued, expires, th.info[1])
                    token == [UserID |-> th.userID, Issued |-> issued,
                              Expires |-> expires, Token |-> tokenString]
                IN threads' = [threads EXCEPT ![t].pc = "storeLock",
                                              ![t].token = tokenString,
                                              ![t].info = <<token>>]
             /\ version' = version + 1
             /\ UNCHANGED <<tokens, userMtx, tokenMtx>>
          \/ /\ th.pc = "storeBody"
             /\ tokens' = MapPut(tokens, th.userID, th.info[1])
             /\ version' = version
             /\ tokenMtx' = FALSE
             /\ threads' = [threads EXCEPT ![t].pc = "go",
                                           ![t].holds = @ \ {"tokenMtx"}]
             /\ UNCHANGED userMtx
    /\ UNCHANGED <<Users, proxy, now, tasks, usersFile, tokensFile, last, net>>

\* issueToken between its Lock and Unlock calls, and the token it mints in
\* between
issueTokenLocked(t) ==
    /\ threads[t].op = "issueToken"
    /\ LET th == threads[t]
       IN \/ /\ th.pc = "userBody"
             /\ userMtx' = FALSE
             /\ threads' = [threads EXCEPT ![t] =
                    LET free == [th EXCEPT !.holds = @ \ {"userMtx"}]
                    IN IF th.userID \notin DOMAIN Users
                       THEN Ended(free, "Invalid credentials")
                       ELSE IF Users[th.userID].passwordDecoded # th.pwd
                       THEN Ended(free, "Invalid username or password")
                       ELSE [free EXCEPT !.pc = "tokenLock",
                                         !.info = <<Users[th.userID].Creds>>]]
             /\ UNCHANGED <<tokens, version, tokenMtx>>
          \/ /\ th.pc = "tokenBody"
             /\ tokenMtx' = FALSE
             /\ LET free == [th EXCEPT !.holds = @ \ {"tokenMtx"}]
                IN IF th.userID \in DOMAIN tokens /\ ExpiresAfter(tokens[th.userID], now)
                   THEN /\ tokens' = tokens
                        /\ threads' = [threads EXCEPT ![t] =
                              Ended([free EXCEPT !.token = tokens[th.userID].Token,
                                                 !.info = <<tokens[th.userID]>>],
                                    ErrNil)]
                   ELSE /\ tokens' = MapDelete(tokens, th.userID)
                        /\ threads' = [threads EXCEPT ![t] = [free EXCEPT !.pc = "mint"]]
             /\ UNCHANGED <<version, userMtx>>
          \/ /\ th.pc = "mint"
             /\ LET issued == now
                    expires == issued + ExpirePeriod
                    tokenString == SignedString(th.userID, issued, expires, th.info[1])
                    token == [UserID |-> th.userID, Issued |-> issued,
                              Expires |-> expires, Token |-> tokenString]
                IN threads' = [threads EXCEPT ![t].pc = "storeLock",
                                              ![t].token = tokenString,
                                              ![t].info = <<token>>]
             /\ UNCHANGED <<tokens, version, userMtx, tokenMtx>>
          \/ /\ th.pc = "storeBody"
             /\ tokens' = MapPut(tokens, th.userID, th.info[1])
             /\ version' = version + 1
             /\ tokenMtx' = FALSE
             /\ threads' = [threads EXCEPT ![t].pc = "go",
                                           ![t].holds = @ \ {"tokenMtx"}]
             /\ UNCHANGED userMtx
    /\ UNCHANGED <<Users, proxy, now, tasks, usersFile, tokensFile, last, net>>

\* revokeToken that starts no goroutine after it removed the token
revokeTokenLocked_noGoroutine(t) ==
    /\ threads[t].op = "revokeToken"
    /\ threads[t].pc = "tokenBody"
    /\ tokenMtx' = FALSE
    /\ LET th == threads[t]
           free == [th EXCEPT !.holds = @ \ {"tokenMtx"}]
       IN IF Matching(th.token) = {}
          THEN /\ threads' = [threads EXCEPT ![t] = Ended(free, ErrNil)]
               /\ UNCHANGED <<tokens, version>>
          ELSE \E id \in Matching(th.token) :
                /\ tokens' = MapDelete(tokens, id)
                /\ version' = version + 1
                /\ threads' = [threads EXCEPT ![t] = Ended(free, ErrNil)]
    /\ UNCHANGED <<Users, proxy, now, tasks, usersFile, tokensFile, last, net, userMtx>>

\* revokeToken between m.tokenMtx.Lock() and m.tokenMtx.Unlock()
revokeTokenLocked(t) ==
    /\ threads[t].op = "revokeToken"
    /\ threads[t].pc = "tokenBody"
    /\ tokenMtx' = FALSE
    /\ LET th == threads[t]
           free == [th EXCEPT !.holds = @ \ {"tokenMtx"}]
       IN IF Matching(th.token) = {}
          THEN /\ threads' = [threads EXCEPT ![t] = Ended(free, ErrNil)]
               /\ UNCHANGED <<tokens, version>>
          ELSE \E id \in Matching(th.token) :
                /\ tokens' = MapDelete(tokens, id)
                /\ version' = version + 1
                /\ threads' = [threads EXCEPT ![t] = [free EXCEPT !.pc = "go"]]
    /\ UNCHANGED <<Users, proxy, now, tasks, usersFile, tokensFile, last, net, userMtx>>

\* userByToken after m.tokenMtx.Lock(), whose Unlock is deferred to the
\* return: the scan of the token map, then m.userMtx.Lock() with tokenMtx
\* still locked, the lookup of the user, and both deferred Unlock calls
userByTokenLocked(t) ==
    /\ threads[t].op = "userByToken"
    /\ LET th == threads[t]
       IN \/ /\ th.pc = "tokenBody"
             /\ IF Matching(th.token) = {}
                THEN /\ tokens' = tokens
                     /\ tokenMtx' = FALSE
                     /\ threads' = [threads EXCEPT ![t] =
                            Ended([th EXCEPT !.holds = @ \ {"tokenMtx"}],
                                  "Token not found")]
                ELSE \E id \in Matching(th.token) :
                      IF ExpiresBefore(tokens[id], now)
                      THEN /\ tokens' = MapDelete(tokens, id)
                           /\ tokenMtx' = FALSE
                           /\ threads' = [threads EXCEPT ![t] =
                                Ended([th EXCEPT !.holds = @ \ {"tokenMtx"}],
                                      "Token expired")]
                      ELSE /\ tokens' = tokens
                           /\ tokenMtx' = tokenMtx
                           /\ threads' = [threads EXCEPT ![t].pc = "userLock",
                                                         ![t].userID = id]
             /\ UNCHANGED userMtx
          \/ /\ th.pc = "userBody"
             /\ userMtx' = FALSE
             /\ tokenMtx' = FALSE
             /\ threads' = [threads EXCEPT ![t] =
                    Ended([th EXCEPT !.holds = {}],
                          IF th.userID \in DOMAIN Users THEN ErrNil ELSE "Invalid token")]
             /\ UNCHANGED tokens
    /\ UNCHANGED <<Users, version, proxy, now, tasks, usersFile, tokensFile, last, net>>

\* sendTokensToProxy that keeps tokenMtx locked while it saves and sends
sendTokensLocked_keep(g) ==
    /\ threads[g].op = "sendTokensToProxy"
    /\ threads[g].pc = "tokenBody"
    /\ LET keep == sweepKeep(tokens, now)
       IN /\ tokens' = [id \in keep |-> tokens[id]]
          /\ \E order \in Orders(keep) :
                threads' = [threads EXCEPT
                    ![g].pc = "saveTokens",
                    ![g].info = <<tokenListOf(tokens, order, version)>>]
    /\ UNCHANGED <<Users, version, proxy, now, tasks, usersFile, tokensFile, last, net,
                   userMtx, tokenMtx>>

\* sendTokensToProxy that lists the tokens it found, the swept ones too
sendTokensLocked_unswept(g) ==
    /\ threads[g].op = "sendTokensToProxy"
    /\ threads[g].pc = "tokenBody"
    /\ tokenMtx' = FALSE
    /\ LET keep == sweepKeep(tokens, now)
       IN /\ tokens' = [id \in keep |-> tokens[id]]
          /\ \E order \in Orders(DOMAIN tokens) :
                threads' = [threads EXCEPT
                    ![g].pc = "saveTokens",
                    ![g].holds = @ \ {"tokenMtx"},
                    ![g].info = <<tokenListOf(tokens, order, version)>>]
    /\ UNCHANGED <<Users, version, proxy, now, tasks, usersFile, tokensFile, last, net,
                   userMtx>>

\* the goroutine before m.tokenMtx.Lock(): without a primary it returns
sendTokensBegin(g) ==
    /\ threads[g].op = "sendTokensToProxy"
    /\ threads[g].pc = "begin"
    /\ threads' = [threads EXCEPT ![g] =
            IF proxy.Url = "" THEN NoThread ELSE [threads[g] EXCEPT !.pc = "tokenLock"]]
    /\ UNCHANGED <<Users, tokens, version, proxy, now, tasks, usersFile, tokensFile,
                   last, net, userMtx, tokenMtx>>

\* the goroutine between m.tokenMtx.Lock() and m.tokenMtx.Unlock(): the
\* sweep of the expired tokens, the token list and the version
sendTokensLocked(g) ==
    /\ threads[g].op = "sendTokensToProxy"
    /\ threads[g].pc = "tokenBody"
    /\ tokenMtx' = FALSE
    /\ LET keep == sweepKeep(tokens, now)
       IN /\ tokens' = [id \in keep |-> tokens[id]]
          /\ \E order \in Orders(keep) :
                threads' = [threads EXCEPT
                    ![g].pc = "saveTokens",
                    ![g].holds = @ \ {"tokenMtx"},
                    ![g].info = <<tokenListOf(tokens, order, version)>>]
    /\ UNCHANGED <<Users, version, proxy, now, tasks, usersFile, tokensFile, last, net,
                   userMtx>>

\* dfc.LocalSave(m.Path+".tokens", tokenList)
sendTokensSave(g) ==
    /\ threads[g].op = "sendTokensToProxy"
    /\ threads[g].pc = "saveTokens"
    /\ tokensFile' = threads[g].info
    /\ threads' = [threads EXCEPT ![g].pc = "send"]
    /\ UNCHANGED <<Users, tokens, version, proxy, now, tasks, usersFile,
                   last, net, userMtx, tokenMtx>>

\* m.client.Do(request): the POST of the token list to m.proxy.Url
sendTokensPost(g) ==
    /\ threads[g].op = "sendTokensToProxy"
    /\ threads[g].pc = "send"
    /\ \E delivered \in PostOutcomes(proxy.Url) :
        threads' = [threads EXCEPT ![g] =
            IF delivered THEN NoThread
            ELSE [threads[g] EXCEPT !.pc = "detect", !.url = proxy.Url]]
    /\ UNCHANGED <<Users, tokens, version, proxy, now, tasks, usersFile, tokensFile,
                   last, net, userMtx, tokenMtx>>

\* m.proxy.detectPrimary() and m.proxy.saveSmap() after a failed POST
sendTokensDetect(g) ==
    /\ threads[g].op = "sendTokensToProxy"
    /\ threads[g].pc = "detect"
    /\ LET P == IF proxy.Smap = <<>> THEN {} ELSE proxy.Smap[1].Pmap
           T == IF proxy.Smap = <<>> THEN {} ELSE proxy.Smap[1].Tmap
       IN \E orderP \in Orders(P), orderT \in Orders(T),
             resp \in ClusterMapAnswers(P \cup T) :
            LET d == detectPrimary(proxy, orderP, orderT, resp)
            IN /\ proxy' = d.proxy
               /\ threads' = [threads EXCEPT ![g] =
                      IF d.err # ErrNil THEN NoThread
                      ELSE [threads[g] EXCEPT !.pc = "send", !.url = ""]]
    /\ UNCHANGED <<Users, tokens, version, now, tasks, usersFile, tokensFile,
                   last, net, userMtx, tokenMtx>>

\* a step of the caller t
CallerNext(t) ==
    \/ callBegin(t)
    \/ userMtxLock(t)
    \/ tokenMtxLock(t)
    \/ addUserLocked(t)
    \/ delUserLocked(t)
    \/ issueTokenLocked(t)
    \/ revokeTokenLocked(t)
    \/ userByTokenLocked(t)
    \/ saveUsersWrite(t)
    \/ saveUsersUnlock(t)
    \/ goSendTokens(t)
    \/ callEnd(t)

\* a step of the goroutine g
GoroutineNext(g) ==
    \/ sendTokensBegin(g)
    \/ tokenMtxLock(g)
    \/ sendTokensLocked(g)
    \/ sendTokensSave(g)
    \/ sendTokensPost(g)
    \/ sendTokensDetect(g)

\* the manager before the concurrent calls: the user is registered and has
\* a token issued at time 0, which has expired or not
ConcUsers == [u \in ConcUserIDs |-> ReplUsers[u]]
ConcTokenMap == [u \in ConcUserIDs |-> ReplTokens[u]]

InitConc ==
    /\ Users = ConcUsers
    /\ tokens = ConcTokenMap
    /\ version = 1 + Cardinality(DOMAIN tokens)
    /\ proxy \in NewProxy
    /\ now \in {0, MaxTime}
    /\ tasks = <<>>
    /\ usersFile = <<UsersJSON(Users)>>
    /\ tokensFile = <<>>
    /\ last = NoCall
    /\ net = AnyNet
    /\ NoLocks

NextConc ==
    \/ \E t \in Callers : CallerNext(t)
    \/ \E g \in Goroutines : GoroutineNext(g)

\* sync.Mutex hands a mutex to a thread that has waited for it, and every
\* step of a thread ends: a thread that can take a step again and again
\* does take one
SpecConc ==
    /\ InitConc
    /\ [][NextConc]_vars
    /\ \A t \in Callers : SF_vars(CallerNext(t))
    /\ \A g \in Goroutines : SF_vars(GoroutineNext(g))

\* ------------------------------------- issueToken, delUser and the clock
\* the calls that race for the token of a user
RaceOps == {"issueToken", "delUser", "userByToken"}

\* the manager after addUser: the user is registered and has no token yet
InitRace ==
    /\ Users = ConcUsers
    /\ tokens = EmptyMap
    /\ version = 1
    /\ proxy \in NewProxy
    /\ now = 0
    /\ tasks = <<>>
    /\ usersFile = <<UsersJSON(Users)>>
    /\ tokensFile = <<>>
    /\ last = NoCall
    /\ net = AnyNet
    /\ NoLocks

raceBegin(t) == callBeginOf(t, RaceOps)

NextRace ==
    \/ \E t \in Callers :
        \/ raceBegin(t)
        \/ userMtxLock(t)
        \/ tokenMtxLock(t)
        \/ delUserLocked(t)
        \/ issueTokenLocked(t)
        \/ userByTokenLocked(t)
        \/ saveUsersWrite(t)
        \/ saveUsersUnlock(t)
        \/ goSendTokens(t)
        \/ callEnd(t)
    \/ \E g \in Goroutines : GoroutineNext(g)
    \/ Tick

SpecRace == InitRace /\ [][NextRace]_vars

\* ------------------------------------------- the deliveries to a primary
\* what the primary has got: the token list delivered last, and the one with
\* the highest version of all that were delivered
NoLists == [last |-> <<>>, high |-> <<>>]
Received(got, list) ==
    [last |-> <<list>>,
     high |-> IF got.high = <<>> \/ list.Version > got.high[1].Version
              THEN <<list>> ELSE got.high]

\* a cluster whose primary accepts every POST and keeps what it gets
DeliverNet ==
    [fixed |-> TRUE,
     ok |-> [u \in URLs |-> TRUE],
     resp |-> [m \in URLs \cup TargetURLs |-> <<>>],
     got |-> NoLists]

DeliverOps == {"issueToken", "revokeToken"}

\* the manager after addUser and issueToken, with the goroutine of that
\* issueToken about to run
InitDeliver ==
    /\ Users = ConcUsers
    /\ tokens = ConcTokenMap
    /\ version = 1 + Cardinality(DOMAIN tokens)
    /\ proxy \in {p \in NewProxy : p.Url # ""}
    /\ now = 0
    /\ tasks = <<>>
    /\ usersFile = <<UsersJSON(Users)>>
    /\ tokensFile = <<>>
    /\ last = NoCall
    /\ net = DeliverNet
    /\ threads = [t \in Callers \cup Goroutines |->
                    IF t = MaxThreads
                    THEN [NoThread EXCEPT !.op = "sendTokensToProxy", !.pc = "begin"]
                    ELSE NoThread]
    /\ userMtx = FALSE
    /\ tokenMtx = FALSE

deliverBegin(t) == callBeginOf(t, DeliverOps)

\* m.client.Do(request) that succeeds: the primary has got the token list
\* and the goroutine ends
sendTokensDelivered(g) ==
    /\ threads[g].op = "sendTokensToProxy"
    /\ threads[g].pc = "send"
    /\ TRUE \in PostOutcomes(proxy.Url)
    /\ net' = [net EXCEPT !.got = Received(@, threads[g].info[1])]
    /\ threads' = [threads EXCEPT ![g] = NoThread]
    /\ UNCHANGED <<Users, tokens, version, proxy, now, tasks, usersFile, tokensFile,
                   last, userMtx, tokenMtx>>

NextDeliver ==
    \/ \E t \in Callers :
        \/ deliverBegin(t)
        \/ userMtxLock(t)
        \/ issueTokenLocked(t)
        \/ revokeTokenLocked(t)
        \/ goSendTokens(t)
        \/ callEnd(t)
    \/ \E g \in Callers \cup Goroutines :
        \/ tokenMtxLock(g)
        \/ sendTokensBegin(g)
        \/ sendTokensLocked(g)
        \/ sendTokensSave(g)
        \/ sendTokensDelivered(g)
    \/ Tick

SpecDeliver == InitDeliver /\ [][NextDeliver]_vars

\* ------------------------------------------- newAuthList of the receiver
\* dfc.decryptToken: <<>> for an error, else <<authRec>>
dfcDecryptToken(tokenStr) ==
    IF Len(tokenStr) # 5 \/ tokenStr[1] # "jwt" THEN <<>>
    ELSE <<[userID |-> tokenStr[2],
            issued |-> ParseRFC822(tokenStr[3]),
            expires |-> ParseRFC822(tokenStr[4]),
            creds |-> tokenStr[5]]>>

\* newAuthList(tokenList): tokenList is <<>> for nil; auth is <<>> for nil
\* and <<the map>> otherwise; the loop returns at the first token that
\* decryptToken refuses
newAuthList(tokenList) ==
    IF tokenList = <<>> \/ Len(tokenList[1].Tokens) = 0
    THEN [auth |-> <<EmptyMap>>, version |-> 1, err |-> ErrNil]
    ELSE LET toks == tokenList[1].Tokens
         IN IF \E k \in 1..Len(toks) : dfcDecryptToken(toks[k]) = <<>>
            THEN [auth |-> <<>>, version |-> 0, err |-> "Invalid token"]
            ELSE [auth |-> <<[str \in {toks[k] : k \in 1..Len(toks)} |->
                                dfcDecryptToken(str)[1]]>>,
                  version |-> tokenList[1].Version,
                  err |-> ErrNil]

\* the TokenLists that can reach the receiver: nil, or up to MaxListLen
\* strings, signed tokens or not, with a version
TokenLists ==
    {<<>>} \cup
    {<<[Tokens |-> toks, Version |-> v]>> :
        toks \in UNION {[1..n -> TokenStrings] : n \in 0..MaxListLen},
        v \in 1..MaxVersion}

InitAuthList ==
    /\ Users = EmptyMap
    /\ tokens = EmptyMap
    /\ version = 1
    /\ proxy \in {p \in NewProxy : p.Url # ""}
    /\ now = 0
    /\ tasks = <<>>
    /\ usersFile = <<>>
    /\ tokensFile = <<>>
    /\ last = NoCall
    /\ \E tokenList \in TokenLists :
        net = [DeliverNet EXCEPT !.got = [last |-> tokenList, high |-> <<>>]]
    /\ NoLocks

\* the receiver applies newAuthList to the list it has got
newAuthListCall ==
    /\ Idle
    /\ last' = [NoCall EXCEPT !.op = "newAuthList",
                              !.task = <<newAuthList(net.got.last)>>]
    /\ UNCHANGED <<Users, tokens, version, proxy, now, tasks, usersFile,
                   tokensFile, net, locks>>

NextAuthList == newAuthListCall

SpecAuthList == InitAuthList /\ [][NextAuthList]_vars

\* ------------------------- detectPrimary of goroutines that share m.proxy
\* Several sendTokensToProxy goroutines whose POST failed run
\* m.proxy.detectPrimary() on the one proxy of the manager. Nothing
\* synchronises them, so each read and each write of p.Url and p.Smap is a
\* step of its own.

\* the clusters in which no POST succeeds; the members' answers do not change
DetectNets == {n \in FixedNets : \A u \in URLs : ~n.ok[u]}

InitShared ==
    /\ Users = EmptyMap
    /\ tokens = EmptyMap
    /\ version = 1
    /\ proxy \in {p \in NewProxy : p.Smap # <<>>}
    /\ now = 0
    /\ tasks = <<>>
    /\ usersFile = <<>>
    /\ tokensFile = <<>>
    /\ last = NoCall
    /\ net \in DetectNets \cup {AnyNet}
    /\ NoLocks

\* m.client.Do(request) fails and the goroutine enters detectPrimary: the
\* test of p.Smap and the start of the range loops over its Pmap and Tmap
detectEnter(g) ==
    /\ threads[g].op = ""
    /\ FALSE \in PostOutcomes(proxy.Url)
    /\ IF proxy.Smap = <<>>
          \/ Cardinality(proxy.Smap[1].Pmap) + Cardinality(proxy.Smap[1].Tmap) = 0
       THEN UNCHANGED threads
       ELSE \E orderP \in Orders(proxy.Smap[1].Pmap),
               orderT \in Orders(proxy.Smap[1].Tmap) :
                threads' = [threads EXCEPT ![g] =
                    [NoThread EXCEPT !.op = "detectPrimary", !.pc = "ask",
                                     !.token = orderP \o orderT]]
    /\ UNCHANGED <<Users, tokens, version, proxy, now, tasks, usersFile,
                   tokensFile, last, net, userMtx, tokenMtx>>

\* the head of a range loop: a member whose DirectURL is p.Url is skipped,
\* another one is asked with client.GetClusterMap; after the last member
\* detectPrimary returns "Detecting primary proxy failed"
detectAsk(g) ==
    /\ threads[g].op = "detectPrimary"
    /\ threads[g].pc = "ask"
    /\ LET order == threads[g].token
       IN IF order = <<>> THEN threads' = [threads EXCEPT ![g] = NoThread]
          ELSE IF Head(order) = proxy.Url
               THEN threads' = [threads EXCEPT ![g].token = Tail(order)]
          ELSE \E resp \in ClusterMapAnswers({Head(order)}) :
                threads' = [threads EXCEPT ![g] =
                    IF resp[Head(order)] = <<>>
                    THEN [@ EXCEPT !.token = Tail(order)]
                    ELSE [@ EXCEPT !.token = Tail(order), !.pc = "compare",
                                   !.info = resp[Head(order)]]]
    /\ UNCHANGED <<Users, tokens, version, proxy, now, tasks, usersFile,
                   tokensFile, last, net, userMtx, tokenMtx>>

\* if smap.ProxySI.DirectURL != p.Url
detectCompare(g) ==
    /\ threads[g].op = "detectPrimary"
    /\ threads[g].pc = "compare"
    /\ threads' = [threads EXCEPT ![g] =
            IF threads[g].info[1].ProxySI # proxy.Url
            THEN [@ EXCEPT !.pc = "setUrl"]
            ELSE [@ EXCEPT !.pc = "ask", !.info = <<>>]]
    /\ UNCHANGED <<Users, tokens, version, proxy, now, tasks, usersFile,
                   tokensFile, last, net, userMtx, tokenMtx>>

\* p.Url = smap.ProxySI.DirectURL
detectSetUrl(g) ==
    /\ threads[g].op = "detectPrimary"
    /\ threads[g].pc = "setUrl"
    /\ proxy' = [proxy EXCEPT !.Url = threads[g].info[1].ProxySI]
    /\ threads' = [threads EXCEPT ![g].pc = "setSmap"]
    /\ UNCHANGED <<Users, tokens, version, now, tasks, usersFile,
                   tokensFile, last, net, userMtx, tokenMtx>>

\* p.Smap = &smap; return nil
detectSetSmap(g) ==
    /\ threads[g].op = "detectPrimary"
    /\ threads[g].pc = "setSmap"
    /\ proxy' = [proxy EXCEPT !.Smap = threads[g].info]
    /\ threads' = [threads EXCEPT ![g] = NoThread]
    /\ last' = [NoCall EXCEPT !.op = "detectPrimary", !.task = threads[g].info]
    /\ UNCHANGED <<Users, tokens, version, now, tasks, usersFile,
                   tokensFile, net, userMtx, tokenMtx>>

NextShared ==
    \E g \in Callers :
        \/ detectEnter(g)
        \/ detectAsk(g)
        \/ detectCompare(g)
        \/ detectSetUrl(g)
        \/ detectSetSmap(g)

SpecShared == InitShared /\ [][NextShared]_vars

\* ------------------------------------------------ detectPrimary on its own
\* cluster maps with and without proxies and targets
DetectMaps ==
    [ProxySI : URLs, Pmap : {{}, URLs}, Tmap : {{}, TargetURLs}]

DetectResponses == {<<>>} \cup {<<s>> : s \in DetectMaps}

\* the proxies that dfc.LocalLoad(configPath, p) can yield in NewProxy
DetectProxies ==
    [Url : {DefaultUrl} \cup URLs, Smap : {<<>>} \cup {<<s>> : s \in DetectMaps}]

InitDetect ==
    /\ Users = EmptyMap
    /\ tokens = EmptyMap
    /\ version = 1
    /\ proxy \in DetectProxies
    /\ now = 0
    /\ tasks = <<>>
    /\ usersFile = <<>>
    /\ tokensFile = <<>>
    /\ last = NoCall
    /\ net = AnyNet
    /\ NoLocks

\* p.detectPrimary() as NewProxy and sendTokensToProxy call it; before is
\* the proxy before the call, resp what each member answers, probed the
\* members asked, in that order
proxyDetectPrimary ==
    /\ Idle
    /\ LET P == IF proxy.Smap = <<>> THEN {} ELSE proxy.Smap[1].Pmap
           T == IF proxy.Smap = <<>> THEN {} ELSE proxy.Smap[1].Tmap
       IN \E orderP \in Orders(P), orderT \in Orders(T),
             resp \in [P \cup T -> DetectResponses] :
            LET d == detectPrimary(proxy, orderP, orderT, resp)
            IN /\ proxy' = d.proxy
               /\ last' = StepRecord("detectPrimary",
                            [NoStep EXCEPT
                                !.url = proxy.Url,
                                !.detect = <<d>>,
                                !.before = <<proxy>>,
                                !.resp = resp,
                                !.probed = detectProbes(proxy, orderP, orderT, resp)])
    /\ UNCHANGED <<Users, tokens, version, now, tasks, usersFile, tokensFile, net, locks>>

NextDetect ==
    \/ proxyDetectPrimary
    \/ Return

SpecDetect == InitDetect /\ [][NextDetect]_vars

\* ================================================================ claims
\* what the calls found: the state before the call is in `last`
Registered(userID) == userID \in DOMAIN last.Users
SecretMatches(userID, pwd) == last.Users[userID].passwordDecoded = pwd
HadToken(userID) == userID \in DOMAIN last.tokens
\* the stored tokens that had the signed value passed to the call
Matched == {id \in DOMAIN last.tokens : last.tokens[id].Token = last.token}

\* C1: a successful addUser adds the user to the registry and leaves the
\* version counter strictly greater than before the call.
C1_AddUserIncreasesVersion ==
    (last.op = "addUser" /\ last.err = ErrNil)
        => /\ last.userID \in DOMAIN Users
           /\ version > last.version

\* C2: a successful delUser removes the user and strictly increases the
\* version, with or without a token; with a token, the token is removed, the
\* version grows by exactly one and one replication task is started.
C2_DelUserIncreasesVersion ==
    (last.op = "delUser" /\ last.err = ErrNil)
        => /\ last.userID \notin DOMAIN Users
           /\ version > last.version
           /\ HadToken(last.userID)
                => /\ last.userID \notin DOMAIN tokens
                   /\ version = last.version + 1
                   /\ Len(tasks) = last.ntasks + 1

\* C3: no step of a running manager (a call, a step of the replication
\* task, the passing of time) decreases the version counter; only the
\* construction of a new manager sets it anew.
C3_VersionNeverDecreases ==
    [][last'.op # "newUserManager" => version' >= version]_vars

C3_Witness == last.op = "revokeToken" /\ version > last.version

\* C4: addUser with a registered userID, or an empty userID or secret,
\* returns an error and leaves the registry (the secret of the registered
\* user included), the token map and the version as they were.
C4_RejectedAddUserChangesNothing ==
    (last.op = "addUser"
        /\ (Registered(last.userID) \/ last.userID = "" \/ last.pwd = ""))
        => /\ last.err # ErrNil
           /\ Users = last.Users
           /\ tokens = last.tokens
           /\ version = last.version

C4_Witness ==
    /\ last.op = "addUser"
    /\ Registered(last.userID)
    /\ last.pwd # ""
    /\ ~SecretMatches(last.userID, last.pwd)
    /\ last.userID \in DOMAIN last.tokens

\* C5: delUser of a userID that is not registered returns an error, leaves
\* the registry, the token map and the version as they were, and starts no
\* replication task.
C5_DelUnknownUserChangesNothing ==
    (last.op = "delUser" /\ ~Registered(last.userID))
        => /\ last.err # ErrNil
           /\ Users = last.Users
           /\ tokens = last.tokens
           /\ version = last.version
           /\ Len(tasks) = last.ntasks

C5_Witness ==
    /\ last.op = "delUser"
    /\ ~Registered(last.userID)
    /\ HadToken(last.userID)

\* C6: issueToken for a registered user with the matching secret and no
\* token returns a non-empty signed value, stores it as the token of that
\* user with expires = issued + the expiry period, increases the version by
\* exactly one and starts one replication task.
C6_IssueTokenMintsToken ==
    (last.op = "issueToken"
        /\ Registered(last.userID)
        /\ SecretMatches(last.userID, last.pwd)
        /\ ~HadToken(last.userID))
        => /\ last.err = ErrNil
           /\ last.tok # <<>>
           /\ DOMAIN tokens = DOMAIN last.tokens \cup {last.userID}
           /\ \A id \in DOMAIN last.tokens : tokens[id] = last.tokens[id]
           /\ tokens[last.userID].Token = last.tok
           /\ tokens[last.userID].UserID = last.userID
           /\ tokens[last.userID].Issued = now
           /\ tokens[last.userID].Expires = tokens[last.userID].Issued + ExpirePeriod
           /\ version = last.version + 1
           /\ Len(tasks) = last.ntasks + 1

C6_Witness ==
    /\ last.op = "issueToken"
    /\ Registered(last.userID)
    /\ SecretMatches(last.userID, last.pwd)
    /\ ~HadToken(last.userID)
    /\ last.tokens # EmptyMap

\* C7: issueToken with valid credentials while the user has a token that is
\* not expired (its expires time has not passed) returns the signed value of
\* that token, changes neither the token map nor the version, and starts no
\* replication task.
C7_ReissueReturnsSameToken ==
    (last.op = "issueToken"
        /\ Registered(last.userID)
        /\ SecretMatches(last.userID, last.pwd)
        /\ HadToken(last.userID)
        /\ ~ExpiresBefore(last.tokens[last.userID], now))
        => /\ last.err = ErrNil
           /\ last.tok = last.tokens[last.userID].Token
           /\ tokens = last.tokens
           /\ version = last.version
           /\ Len(tasks) = last.ntasks

\* C8: issueToken for an unknown userID or with a secret that is not the
\* registered one fails, returns no token and leaves the token map and the
\* version as they were.
C8_IssueTokenRejected ==
    (last.op = "issueToken"
        /\ (~Registered(last.userID) \/ ~SecretMatches(last.userID, last.pwd)))
        => /\ last.err # ErrNil
           /\ last.tok = <<>>
           /\ tokens = last.tokens
           /\ version = last.version
           /\ Len(tasks) = last.ntasks

C8_Witness ==
    /\ last.op = "issueToken"
    /\ Registered(last.userID)
    /\ last.pwd # ""
    /\ ~SecretMatches(last.userID, last.pwd)
    /\ HadToken(last.userID)
    /\ ExpiresBefore(last.tokens[last.userID], now)

\* C9: userByToken with the signed value of a stored token whose expires
\* time has passed fails with "Token expired", returns no user, removes that
\* token (and no other) from the token map and leaves the version as it was.
C9_ExpiredTokenRejected ==
    \A id \in Matched :
        (last.op = "userByToken" /\ ExpiresBefore(last.tokens[id], now))
            => /\ last.err = "Token expired"
               /\ last.user = <<>>
               /\ tokens = MapDelete(last.tokens, id)
               /\ version = last.version

C9_Witness ==
    /\ last.op = "userByToken"
    /\ \E id \in Matched :
        /\ ExpiresBefore(last.tokens[id], now)
        /\ id \in DOMAIN last.Users
        /\ DOMAIN last.tokens # {id}

\* C10: userByToken with the signed value of a stored token that is not
\* expired returns the registry entry of the user the token was issued for
\* when that user is registered and fails with "Invalid token" when it is
\* not; with a value that no stored token has it fails with "Token not
\* found"; in all three cases the token map and the version stay as they were.
C10_UserByToken ==
    last.op = "userByToken"
        => /\ \A id \in Matched :
                ~ExpiresBefore(last.tokens[id], now)
                    => /\ tokens = last.tokens
                       /\ version = last.version
                       /\ IF Registered(id)
                          THEN /\ last.err = ErrNil
                               /\ last.user = <<last.Users[id]>>
                               /\ last.user[1].UserID = last.token[2]
                          ELSE /\ last.err = "Invalid token"
                               /\ last.user = <<>>
           /\ Matched = {}
                => /\ last.err = "Token not found"
                   /\ last.user = <<>>
                   /\ tokens = last.tokens
                   /\ version = last.version

C10_Witness ==
    /\ last.op = "userByToken"
    /\ last.err = "Invalid token"
    /\ \E id \in DOMAIN Users : id # last.token[2]

\* the results that userByToken(token) can have in the current state
LookupOutcomes(token) ==
    IF Matching(token) = {}
    THEN {userByTokenBody(token, "")}
    ELSE {userByTokenBody(token, id) : id \in Matching(token)}

\* C11: revokeToken with the signed value of a stored token removes that
\* token and no other, increases the version by exactly one and starts one
\* replication task; userByToken with the same signed value then fails with
\* "Token not found".
C11_RevokeRemovesToken ==
    (last.op = "revokeToken" /\ Matched # {})
        => /\ last.err = ErrNil
           /\ \E id \in Matched : tokens = MapDelete(last.tokens, id)
           /\ version = last.version + 1
           /\ Len(tasks) = last.ntasks + 1
           /\ \A r \in LookupOutcomes(last.token) : r.err = "Token not found"

C11_Witness ==
    /\ last.op = "revokeToken"
    /\ Matched # {}
    /\ tokens # EmptyMap

\* C12: revokeToken with a signed value that no stored token has returns no
\* error, leaves the token map and the version as they were and starts no
\* replication task; so the second of two revocations of one token changes
\* nothing.
C12_RevokeUnknownIsNoOp ==
    (last.op = "revokeToken" /\ Matched = {})
        => /\ last.err = ErrNil
           /\ tokens = last.tokens
           /\ version = last.version
           /\ Len(tasks) = last.ntasks

C12_Witness ==
    /\ last.op = "revokeToken"
    /\ Matched = {}
    /\ last.token # GarbageToken
    /\ last.token[2] \in DOMAIN last.Users
    /\ last.tokens # EmptyMap

\* C13: after a successful addUser the token map holds no token for the
\* userID: a token left from an earlier registration of the name is removed
\* and userByToken with its signed value does not return the new user.
C13_AddUserRemovesStaleToken ==
    (last.op = "addUser" /\ last.err = ErrNil)
        => /\ last.userID \notin DOMAIN tokens
           /\ HadToken(last.userID)
                => LET old == last.tokens[last.userID].Token
                   IN \A r \in LookupOutcomes(old) : r.user = <<>>

C13_Witness ==
    /\ last.op = "addUser"
    /\ last.err = ErrNil
    /\ HadToken(last.userID)
    /\ ~ExpiresBefore(last.tokens[last.userID], now)

\* C14: issueToken with valid credentials for a user whose stored token is
\* expired stores, in place of that token, a new one with issued = now and
\* expires = now + the expiry period, returns the signed value of the new
\* token, never that of the expired one, increases the version by exactly
\* one and starts one replication task.
C14_ExpiredTokenReissued ==
    (last.op = "issueToken"
        /\ Registered(last.userID)
        /\ SecretMatches(last.userID, last.pwd)
        /\ HadToken(last.userID)
        /\ ExpiresBefore(last.tokens[last.userID], now))
        => /\ last.err = ErrNil
           /\ DOMAIN tokens = DOMAIN last.tokens
           /\ \A id \in DOMAIN tokens \ {last.userID} : tokens[id] = last.tokens[id]
           /\ tokens[last.userID].Issued = now
           /\ tokens[last.userID].Expires = now + ExpirePeriod
           /\ tokens[last.userID].Token = last.tok
           /\ last.tok # last.tokens[last.userID].Token
           /\ version = last.version + 1
           /\ Len(tasks) = last.ntasks + 1

C14_Witness ==
    /\ last.op = "issueToken"
    /\ last.err = ErrNil
    /\ HadToken(last.userID)
    /\ ExpiresBefore(last.tokens[last.userID], now)

\* C15: a goroutine that starts while no primary URL is set ends at once:
\* it builds no token list, changes nothing, and no POST and no
\* detectPrimary is ever made on behalf of an empty URL.
C15_NoPrimaryNoDelivery ==
    /\ (last.op = "sweepTokens" /\ proxy.Url = "")
        => /\ last.task[1].pc = "end"
           /\ Len(tasks) = last.ntasks - 1
           /\ \A k \in DOMAIN tasks : tasks[k].pc = "start"
           /\ last.task[1].list = <<>>
           /\ tokens = last.tokens
           /\ version = last.version
    /\ last.op \in {"deliverTokens", "redetectPrimary"}
        => /\ last.task[1].url # ""
           /\ proxy.Url # ""

C15_Witness ==
    /\ last.op = "sweepTokens"
    /\ proxy.Url = ""
    /\ last.tokens # EmptyMap
    /\ tokensFile = <<>>

\* C16: the token list that the goroutine builds holds exactly the signed
\* values of the tokens that are not expired at the time of the sweep, each
\* once, and the version at that time; the sweep removes the expired tokens
\* from the token map, keeps the others and leaves the version as it was.
C16_TokenListOfSweep ==
    (last.op = "sweepTokens" /\ last.task[1].list # <<>>)
        => LET list == last.task[1].list[1]
               live == {id \in DOMAIN last.tokens : ~(last.tokens[id].Expires < now)}
           IN /\ {list.Tokens[k] : k \in DOMAIN list.Tokens}
                    = {last.tokens[id].Token : id \in live}
              /\ Len(list.Tokens) = Cardinality(live)
              /\ list.Version = last.version
              /\ DOMAIN tokens = live
              /\ \A id \in live : tokens[id] = last.tokens[id]
              /\ version = last.version
              /\ tokensFile = <<list>>

C16_Witness ==
    /\ last.op = "sweepTokens"
    /\ last.task[1].list # <<>>
    /\ tokens # EmptyMap
    /\ tokens # last.tokens

\* C17: a failed POST is followed by one detectPrimary; when that fails the
\* goroutine ends; when it succeeds the proxy is saved and the goroutine
\* turns to the adopted URL, which is not the URL whose POST failed; the
\* goroutine ends after a POST only when the POST succeeded.
C17_FailedDeliveryThenDetect ==
    /\ last.op = "deliverTokens"
        => IF last.task[1].delivered
           THEN last.task[1].pc = "end" /\ Len(tasks) = last.ntasks - 1
           ELSE last.task[1].pc = "detect" /\ Len(tasks) = last.ntasks
    /\ last.op = "redetectPrimary"
        => LET step == last.task[1]
           IN IF step.detect[1].err # ErrNil
              THEN step.pc = "end" /\ Len(tasks) = last.ntasks - 1
              ELSE /\ step.pc = "send"
                   /\ Len(tasks) = last.ntasks
                   /\ step.saved = <<proxy>>
                   /\ proxy.Url = step.detect[1].proxy.Url
                   /\ proxy.Url # step.failed

\* C18: with one goroutine and a cluster whose answers are fixed, the
\* goroutine eventually ends.
C18_TaskTerminates ==
    (net.fixed /\ Len(tasks) = 1) ~> (tasks = <<>>)

\* C19: issueToken, revokeToken and delUser return while the goroutine they
\* started has not run a single statement, and what they return is decided
\* by the registry and the arguments alone: no error of the delivery or of
\* detectPrimary reaches the caller.
C19_CallersDoNotWait ==
    /\ (last.op \in {"issueToken", "revokeToken", "delUser"}
            /\ Len(tasks) > last.ntasks)
        => /\ Len(tasks) = last.ntasks + 1
           /\ tasks[Len(tasks)] = NewTask
    /\ last.op = "issueToken"
        => /\ (last.err = ErrNil)
                <=> (Registered(last.userID) /\ SecretMatches(last.userID, last.pwd))
           /\ (last.tok # <<>>) <=> (last.err = ErrNil)
    /\ last.op = "revokeToken" => last.err = ErrNil
    /\ last.op = "delUser"
        => /\ (last.err = "User does not exist") <=> ~Registered(last.userID)
           /\ last.err \in {ErrNil, "User does not exist",
                            "UserManager: Failed to save user list"}

C19_Witness ==
    /\ last.op = "issueToken"
    /\ last.err = ErrNil
    /\ Len(tasks) = last.ntasks + 1
    /\ proxy.Url = ""

\* C20: a manager made from the files of a running manager none of whose
\* goroutines is still running has the same userIDs with the same secrets,
\* and every token of the running manager that is not expired (none of them
\* fails the verification).
C20_ReloadReproducesState ==
    (last.op = "newUserManager" /\ last.ntasks = 0)
        => /\ DOMAIN Users = DOMAIN last.Users
           /\ \A u \in DOMAIN Users :
                Users[u].passwordDecoded = last.Users[u].passwordDecoded
           /\ \A id \in DOMAIN last.tokens :
                ~ExpiresBefore(last.tokens[id], now)
                    => /\ id \in DOMAIN tokens
                       /\ tokens[id].Token = last.tokens[id].Token

\* what a recorded call of detectPrimary found
DetectP == IF last.task[1].before[1].Smap = <<>> THEN {}
           ELSE last.task[1].before[1].Smap[1].Pmap
DetectT == IF last.task[1].before[1].Smap = <<>> THEN {}
           ELSE last.task[1].before[1].Smap[1].Tmap
\* member m did not answer or reported the primary that was tracked
Refused(m) ==
    \/ last.task[1].resp[m] = <<>>
    \/ last.task[1].resp[m][1].ProxySI = last.task[1].url

\* C21: detectPrimary fails with "Cluster map is empty" when there is no
\* cluster map or it has no proxy and no target; when it succeeds the Url is
\* another one than before and Url and Smap are the primary and the cluster
\* map that the member asked last reported; when it fails the proxy is as it
\* was.
C21_DetectPrimaryContract ==
    last.op = "detectPrimary"
        => LET step == last.task[1]
               d == step.detect[1]
           IN /\ DetectP \cup DetectT = {} => d.err = "Cluster map is empty"
              /\ d.err = ErrNil
                    => LET m == step.probed[Len(step.probed)]
                       IN /\ proxy.Url # step.url
                          /\ step.resp[m] # <<>>
                          /\ proxy.Url = step.resp[m][1].ProxySI
                          /\ proxy.Smap = step.resp[m]
              /\ d.err # ErrNil => proxy = step.before[1]

C21_Witness ==
    /\ last.op = "detectPrimary"
    /\ last.task[1].detect[1].err = ErrNil
    /\ Len(last.task[1].probed) > 1
    /\ proxy.Smap # last.task[1].before[1].Smap
    /\ proxy.Smap[1].Pmap = {}

\* C29: detectPrimary asks no member twice and never the one at the tracked
\* Url; it asks a target only after every proxy other than the tracked one
\* was asked and refused (no answer, or the tracked primary); and it fails
\* with "Detecting primary proxy failed" only when every member other than
\* the tracked one was asked and refused.
C29_ProbeOrder ==
    (last.op = "detectPrimary" /\ DetectP \cup DetectT # {})
        => LET step == last.task[1]
               probed == step.probed
               asked == {probed[k] : k \in DOMAIN probed}
           IN /\ Len(probed) = Cardinality(asked)
              /\ asked \subseteq (DetectP \cup DetectT) \ {step.url}
              /\ \A k \in DOMAIN probed :
                    probed[k] \in DetectT
                        => \A m \in DetectP \ {step.url} :
                            /\ \E j \in 1..(k - 1) : probed[j] = m
                            /\ Refused(m)
              /\ step.detect[1].err # ErrNil
                    => /\ step.detect[1].err = "Detecting primary proxy failed"
                       /\ asked = (DetectP \cup DetectT) \ {step.url}
                       /\ \A m \in asked : Refused(m)

C29_Witness ==
    /\ last.op = "detectPrimary"
    /\ last.task[1].detect[1].err = ErrNil
    /\ Len(last.task[1].probed) = 2
    /\ last.task[1].probed[2] \in DetectT
    /\ last.task[1].resp[last.task[1].probed[1]] # <<>>

\* C22: when the user file cannot be written, addUser and delUser return
\* the error of the save and keep what they did in memory: the user added
\* (and the old token of the name removed), or the user and the token
\* removed and the version counted up if there was a token; and they never
\* return without error while the file lacks the change.
C22_FailedSaveKeepsChange ==
    /\ (last.op = "addUser" /\ last.err = "UserManager: Failed to save user list")
        => /\ ~Registered(last.userID)
           /\ last.userID \in DOMAIN Users
           /\ Users[last.userID].passwordDecoded = last.pwd
           /\ \A u \in DOMAIN last.Users : Users[u] = last.Users[u]
           /\ last.userID \notin DOMAIN tokens
    /\ (last.op = "delUser" /\ last.err = "UserManager: Failed to save user list")
        => /\ Registered(last.userID)
           /\ Users = MapDelete(last.Users, last.userID)
           /\ tokens = MapDelete(last.tokens, last.userID)
           /\ version = IF HadToken(last.userID)
                        THEN last.version + 1 ELSE last.version
    /\ (last.op \in {"addUser", "delUser"} /\ Users # last.Users
            /\ usersFile # <<UsersJSON(Users)>>)
        => last.err = "UserManager: Failed to save user list"

C22_Witness ==
    /\ last.op = "delUser"
    /\ last.err = "UserManager: Failed to save user list"
    /\ HadToken(last.userID)
    /\ usersFile # <<UsersJSON(Users)>>

\* what a call on the credentials found
CredsBefore(userID) == last.Users[userID].Creds
Supported(provider) == provider \in Providers
\* the call set the value that was there already
Redundant ==
    /\ last.cred[1].provider \in DOMAIN CredsBefore(last.userID)
    /\ CredsBefore(last.userID)[last.cred[1].provider] = last.cred[1].value

\* C23 as stated: updateCredentials for a registered user and a supported
\* provider sets the credential, returns changed = true, increases the
\* version and leaves the other credentials; else it returns an error with
\* changed = false and changes nothing.
C23_UpdateCredentials ==
    last.op = "updateCredentials"
        => IF Registered(last.userID) /\ Supported(last.cred[1].provider)
           THEN /\ last.err = ErrNil
                /\ last.cred[1].changed
                /\ version > last.version
                /\ Users[last.userID].Creds
                    = MapPut(CredsBefore(last.userID),
                             last.cred[1].provider, last.cred[1].value)
                /\ \A u \in DOMAIN last.Users \ {last.userID} : Users[u] = last.Users[u]
           ELSE /\ last.err # ErrNil
                /\ ~last.cred[1].changed
                /\ Users = last.Users
                /\ version = last.version

\* C23 amended: as C23, but changed = true and the increase of the version
\* are promised only for a value that is not the one there already; for
\* that one the credentials stay as they are and the version increases
\* exactly when changed = true is returned.
C23_UpdateCredentialsAmended ==
    last.op = "updateCredentials"
        => IF Registered(last.userID) /\ Supported(last.cred[1].provider)
           THEN /\ last.err = ErrNil
                /\ ~Redundant => (last.cred[1].changed /\ version = last.version + 1)
                /\ Redundant => (last.cred[1].changed <=> version > last.version)
                /\ Users[last.userID].Creds
                    = MapPut(CredsBefore(last.userID),
                             last.cred[1].provider, last.cred[1].value)
                /\ \A u \in DOMAIN last.Users \ {last.userID} : Users[u] = last.Users[u]
                /\ Users[last.userID].passwordDecoded
                    = last.Users[last.userID].passwordDecoded
           ELSE /\ last.err # ErrNil
                /\ ~last.cred[1].changed
                /\ Users = last.Users
                /\ version = last.version

C23_Witness ==
    /\ last.op = "updateCredentials"
    /\ last.err = ErrNil
    /\ ~Redundant
    /\ last.cred[1].provider \in DOMAIN CredsBefore(last.userID)
    /\ DOMAIN CredsBefore(last.userID) # {last.cred[1].provider}

\* C24: deleteCredentials for a registered user and a supported provider
\* removes the credential, returns changed = true and increases the version
\* when the credential is there; when it is not, it returns changed = false
\* and no error and changes nothing; for an unregistered user or an
\* unsupported provider it returns an error and changes nothing.
C24_DeleteCredentials ==
    last.op = "deleteCredentials"
        => IF Registered(last.userID) /\ Supported(last.cred[1].provider)
           THEN IF last.cred[1].provider \in DOMAIN CredsBefore(last.userID)
                THEN /\ last.err = ErrNil
                     /\ last.cred[1].changed
                     /\ version = last.version + 1
                     /\ Users[last.userID].Creds
                         = MapDelete(CredsBefore(last.userID), last.cred[1].provider)
                     /\ \A u \in DOMAIN last.Users \ {last.userID} :
                            Users[u] = last.Users[u]
                ELSE /\ last.err = ErrNil
                     /\ ~last.cred[1].changed
                     /\ Users = last.Users
                     /\ version = last.version
           ELSE /\ last.err # ErrNil
                /\ ~last.cred[1].changed
                /\ Users = last.Users
                /\ version = last.version

C24_Witness ==
    /\ last.op = "deleteCredentials"
    /\ last.err = ErrNil
    /\ ~last.cred[1].changed
    /\ Registered(last.userID)
    /\ CredsBefore(last.userID) # EmptyMap

\* the mutexes a thread holds, and the thread that waits for a mutex
Holds(t, mtx) == mtx \in threads[t].holds
WaitsUser(t) == threads[t].pc \in {"userLock", "saveLock"} /\ userMtx
WaitsToken(t) == threads[t].pc \in {"tokenLock", "storeLock"} /\ tokenMtx
AllThreads == Callers \cup Goroutines

\* C25: no thread holds userMtx and tokenMtx at the same time.
C25_NeverBothLocks ==
    \A t \in AllThreads : ~(Holds(t, "userMtx") /\ Holds(t, "tokenMtx"))

\* C26: whenever a thread waits for a mutex some thread can take a step, and
\* a thread that holds a mutex releases it in the end.
C26_NoDeadlock ==
    /\ [](\A t \in AllThreads :
            (WaitsUser(t) \/ WaitsToken(t)) => ENABLED NextConc)
    /\ \A t \in AllThreads : (threads[t].holds # {}) ~> (threads[t].holds = {})

C26_Witness ==
    \E t, u \in AllThreads :
        /\ Holds(t, "tokenMtx") /\ WaitsUser(t)
        /\ u # t
        /\ Holds(u, "userMtx")

\* where a thread is about to write a file or to use the network
C27_DiskPcs == {"saveWrite", "saveTokens"}
C27_NetPcs == {"send", "detect"}

\* C27: a caller that writes a file or sends an HTTP request holds no mutex.
C27_NoLockDuringIO ==
    \A t \in Callers :
        threads[t].pc \in C27_DiskPcs \cup C27_NetPcs => threads[t].holds = {}

\* C28: a goroutine of sendTokensToProxy holds no mutex but tokenMtx, and
\* that one only between its Lock and Unlock calls around the sweep and the
\* read of the version; it holds none while it writes the token file, sends
\* the token list or runs detectPrimary.
C28_TaskLocksOnlyForSweep ==
    \A g \in Goroutines :
        /\ ~Holds(g, "userMtx")
        /\ Holds(g, "tokenMtx") => threads[g].pc = "tokenBody"
        /\ threads[g].pc \in C27_DiskPcs \cup C27_NetPcs => threads[g].holds = {}

C28_Witness ==
    \E g \in Goroutines, t \in Callers :
        /\ threads[g].pc \in C27_NetPcs
        /\ Holds(t, "tokenMtx")

\* C30: a user that a successful delUser has deleted is not returned by
\* userByToken until an addUser for the same userID: the successful delUser
\* leaves the userID out of the registry, a userID enters the registry only
\* in an addUser for it, and userByToken returns only a user of the registry
\* (and none for a stored token whose user is not in it).
C30_DeletedUserNotReturned ==
    /\ [](last.op = "delUser" /\ last.err = ErrNil
            => last.userID \notin DOMAIN Users)
    /\ [][\A u \in UserIDs :
            (u \notin DOMAIN Users /\ u \in DOMAIN Users')
                => (last'.op = "addUser" /\ last'.userID = u)]_vars
    /\ [](last.op = "userByToken"
            => /\ last.user # <<>>
                    => /\ last.user[1].UserID \in DOMAIN Users
                       /\ last.user[1] = Users[last.user[1].UserID]
               /\ \A id \in Matched : id \notin DOMAIN Users => last.user = <<>>)

C30_Witness ==
    /\ last.op = "userByToken"
    /\ last.err = "Invalid token"
    /\ last.token[2] \notin DOMAIN Users
    /\ Matched # {}
    /\ usersFile # <<>>
    /\ last.token[2] \notin DOMAIN usersFile[1]

\* the thread that took the step, and the steps that install or remove a
\* token on behalf of issueToken, revokeToken and delUser
Acted(t) == threads'[t] # threads[t]
Installs(t) == threads[t].op = "issueToken" /\ threads[t].pc = "storeBody"
Removes(t) ==
    \/ /\ threads[t].op = "revokeToken" /\ threads[t].pc = "tokenBody"
       /\ Matching(threads[t].token) # {}
    \/ /\ threads[t].op = "delUser" /\ threads[t].pc = "tokenBody"
       /\ threads[t].userID \in DOMAIN tokens

\* C31: the version changes only in a step of a thread that holds tokenMtx,
\* a token list takes its version in such a step too, and the version grows
\* by exactly one in each step in which issueToken installs a token or
\* revokeToken or delUser removes one, and in no other step.
C31_VersionUnderTokenLock ==
    [][\A t \in AllThreads :
        Acted(t) /\ threads[t].op # ""
            => /\ version' # version => Holds(t, "tokenMtx")
               /\ (threads[t].op = "sendTokensToProxy" /\ threads[t].info = <<>>
                        /\ threads'[t].info # <<>>)
                    => /\ Holds(t, "tokenMtx")
                       /\ threads'[t].info[1].Version = version
               /\ version' = IF Installs(t) \/ Removes(t) THEN version + 1 ELSE version]_vars

C31_Witness ==
    \E t, u \in Callers :
        /\ t # u
        /\ threads[t].op = "issueToken" /\ threads[t].pc \in {"go", "done"}
        /\ threads[t].err = "" \/ threads[t].err = ErrNil
        /\ threads[u].op \in {"revokeToken", "delUser"} /\ threads[u].pc = "go"
        /\ version = 4
        /\ tokens # EmptyMap

\* a call of op that is between its entry and its return
InProgress(t, ops) == threads[t].op \in ops /\ threads[t].pc # "done"
\* issueToken has returned a signed value to the caller t
Issued(t) ==
    /\ threads[t].op = "issueToken"
    /\ threads[t].pc = "done"
    /\ threads[t].err = ErrNil

\* C32: a signed value that issueToken has returned is accepted by
\* userByToken while its token has not expired and its user has not been
\* deleted (there is no revokeToken and no addUser in SpecRace, and a
\* deleted user stays deleted), also when issueToken calls for the user ran
\* concurrently; so two such calls have returned the same signed value.
C32_IssuedTokenAccepted ==
    \A t \in Callers :
        (/\ Issued(t)
         /\ threads[t].userID \in DOMAIN Users
         /\ ExpiresAfter(threads[t].info[1], now))
            => /\ Matching(threads[t].token) # {}
               /\ \A out \in LookupOutcomes(threads[t].token) : out.err = ErrNil
               /\ \A u \in Callers :
                    (/\ Issued(u)
                     /\ threads[u].userID = threads[t].userID
                     /\ ExpiresAfter(threads[u].info[1], now))
                        => threads[u].token = threads[t].token

\* C33: when no addUser, delUser or issueToken call is in progress, every
\* token of the token map belongs to a user of the registry.
C33_TokensBelongToUsers ==
    (\A t \in Callers : ~InProgress(t, {"addUser", "delUser", "issueToken"}))
        => DOMAIN tokens \subseteq DOMAIN Users

\* the goroutine g builds its token list in this step
Builds(g) ==
    /\ threads[g].op = "sendTokensToProxy"
    /\ threads[g].info = <<>>
    /\ threads'[g].info # <<>>
\* the signed values of a token list, and those of a token map
ListTokens(list) == {list.Tokens[k] : k \in 1..Len(list.Tokens)}
MapTokens(tm) == {tm[id].Token : id \in DOMAIN tm}

\* C34: a token list carries the version and exactly the tokens of the
\* manager's state at the end of the step that builds it, and its version
\* is not lower than that of a list built before it (the one in the token
\* file): of two lists the one with the strictly lower version is the
\* earlier one. The version never goes down.
C34_ListFromOneState ==
    [][/\ version' >= version
       /\ \A g \in Goroutines :
            Builds(g)
                => LET list == threads'[g].info[1]
                   IN /\ list.Version = version'
                      /\ ListTokens(list) = MapTokens(tokens')
                      /\ Len(list.Tokens) = Cardinality(DOMAIN tokens')
                      /\ tokensFile # <<>> => tokensFile[1].Version <= list.Version]_vars

C34_Witness ==
    \E g \in Goroutines :
        /\ threads[g].op = "sendTokensToProxy"
        /\ threads[g].pc = "saveTokens"
        /\ tokensFile # <<>>
        /\ tokensFile[1].Version < threads[g].info[1].Version
        /\ ListTokens(tokensFile[1]) # ListTokens(threads[g].info[1])
        /\ \E t \in Callers : threads[t].pc \in {"tokenLock", "storeLock"}

\* no call is in progress and every goroutine has ended
Quiescent == \A t \in AllThreads : threads[t].op = "" \/ threads[t].pc = "done"

\* C35 as stated: when all goroutines have ended with a delivery, the token
\* list delivered last carries the highest version of all delivered lists.
C35_LastDeliveryIsNewest ==
    (Quiescent /\ net.got.last # <<>>)
        => net.got.last[1].Version = net.got.high[1].Version

\* C35 amended: when all goroutines have ended with a delivery and no call
\* is in progress, the highest version of all delivered token lists is the
\* version of the manager, and the list that carries it holds every token
\* of the token map; the list delivered last may carry a lower version.
C35_HighestDeliveryIsNewest ==
    /\ net.got.high # <<>> => net.got.high[1].Version <= version
    /\ (Quiescent /\ net.got.last # <<>>)
        => /\ net.got.high[1].Version = version
           /\ MapTokens(tokens) \subseteq ListTokens(net.got.high[1])

C35_Witness ==
    /\ Quiescent
    /\ net.got.last # <<>>
    /\ net.got.last[1].Version < net.got.high[1].Version
    /\ ListTokens(net.got.last[1]) # ListTokens(net.got.high[1])

\* C37: issueToken, userByToken and the sweep of sendTokensToProxy agree on
\* whether a token is expired, also at the instant now = expires: issueToken
\* replaces a stored token only at an instant at which userByToken and the
\* sweep treat that token as expired.
C37_ExpiryAgreement ==
    (last.op = "issueToken"
        /\ Registered(last.userID)
        /\ SecretMatches(last.userID, last.pwd)
        /\ HadToken(last.userID)
        /\ last.err = ErrNil
        /\ tokens[last.userID] # last.tokens[last.userID])
        => ExpiresBefore(last.tokens[last.userID], now)

\* C38: a manager made from the files of a manager none of whose goroutines
\* is still running starts with a version that is not lower than the version
\* of that manager, whatever the primary URL, the empty one included.
C38_VersionSurvivesRestart ==
    (last.op = "newUserManager" /\ last.ntasks = 0)
        => version >= last.version

\* the TokenList that newAuthList was applied to, and what it returned
AuthInput == net.got.last
AuthOutput == last.task[1]
\* some token of the list fails the verification
SomeInvalid ==
    /\ AuthInput # <<>>
    /\ \E k \in 1..Len(AuthInput[1].Tokens) :
        dfcDecryptToken(AuthInput[1].Tokens[k]) = <<>>

\* C39: the version that newAuthList returns for a TokenList is the version
\* that the list carries, also for a list without tokens; a list one of
\* whose tokens fails the verification is rejected as a whole: an error and
\* no map.
C39_NewAuthListVersion ==
    (last.op = "newAuthList" /\ AuthInput # <<>>)
        => IF SomeInvalid
           THEN AuthOutput.err # ErrNil /\ AuthOutput.auth = <<>>
           ELSE /\ AuthOutput.err = ErrNil
                /\ AuthOutput.version = AuthInput[1].Version

\* the goroutine g is inside detectPrimary
Detecting(g) == threads[g].op = "detectPrimary"

\* C36: whenever no detectPrimary is in progress and the cluster map was
\* adopted by detectPrimary, the tracked primary URL is the primary of that
\* cluster map, also when several goroutines run detectPrimary at the same
\* time.
C36_UrlMatchesSmap ==
    (last.op = "detectPrimary" /\ \A g \in AllThreads : ~Detecting(g))
        => /\ proxy.Smap # <<>>
           /\ proxy.Url = proxy.Smap[1].ProxySI

====
